---- MODULE Spec2Model ----
(***************************************************************************)
(* A model of the deterministic physics-and-collision core of the VECTRIX  *)
(* SDK: the three broadphase backends (collision/broadphase.ts), the       *)
(* fixed-step clock, the seeded random streams and the tick loop           *)
(* (simulation/runtime.ts, with the integrators).                          *)
(*                                                                         *)
(* Every subsystem has its own specification over the module's variables:  *)
(*   Spec               the tick loop, two sessions fed the same inputs    *)
(*   SpecBroadphase     the three backends under insert/update/remove      *)
(*   SpecBroadphaseFresh  the three backends filled once, then queried     *)
(*   SpecClock          DeterministicRuntime.advance                       *)
(*   SpecSeed           SeedStreamManager snapshot and restore             *)
(*   SpecRandom         SeededRandom.fork                                  *)
(*   SpecContact, SpecContactFlagged, SpecNarrowphase                      *)
(*                      resolveContact, sphereVsSphere and the ray casts   *)
(*   SpecCallbacks, SpecManifolds                                          *)
(*                      ContactCallbackRegistry and ContactManager         *)
(*   SpecActions, SpecTicks, SpecReset, SpecRemove, SpecApart, SpecPass,   *)
(*   SpecCap, SpecConfig                                                   *)
(*                      the tick loop on further inputs                    *)
(*   SpecAsync          step() calls that are not awaited                  *)
(*   SpecLoop           advance statement by statement, any config         *)
(*   SpecRefs           the Vector3 objects of a session by reference      *)
(*   SpecHash, SpecSnapshot                                                *)
(*                      computeFinalHash, serializeState/deserializeState  *)
(* The variables of the subsystems a specification does not drive keep     *)
(* their initial value.                                                    *)
(***************************************************************************)
EXTENDS Integers, Sequences, FiniteSets, TLC

VARIABLES
    \* collision/broadphase.ts
    simpleEntities,   \* SimpleBroadphase.entities: Map in insertion order
    cells,            \* SpatialHashBroadphase.cells: Map key -> Set, both in insertion order
    entityBounds,     \* SpatialHashBroadphase.entityBounds
    entityCells,      \* SpatialHashBroadphase.entityCells
    entries,          \* SweepAndPruneBroadphase.entries
    entityMap,        \* SweepAndPruneBroadphase.entityMap: id -> index into entries (0-based)
    bpResult,         \* the three results of the last queryPairs(), or NoResult
    bpOps,            \* number of insert/update/remove calls made so far
    \* simulation/runtime.ts, DeterministicRuntime
    accumulator,      \* DeterministicRuntime.accumulator
    currentStep,      \* DeterministicRuntime.currentStep
    clockLog,         \* what the caller of advance has seen: the deltas passed, the
                      \* callbacks counted, whether a call was clamped or rounded
    \* simulation/runtime.ts, SeedStreamManager
    masterSeed,       \* SeedStreamManager.masterSeed
    streams,          \* SeedStreamManager.streams of the original manager
    restoredStreams,  \* SeedStreamManager.streams of the manager restored from a snapshot
    seedSnapshot,     \* the SeedStream that getSeedStream() returned, if taken
    seedLog,          \* the values the streams of both managers have returned
    \* simulation/runtime.ts, SeededRandom.fork
    generators,       \* a SeededRandom, its twin on which fork is never called, and
                      \* the generators that fork returned
    randomLog,        \* the values that next() returned on each of them
    \* the pure functions of the collision modules
    call,             \* the last call made: the function, its arguments and its result
    \* simulation/runtime.ts, SimulationRuntime
    config,           \* RuntimeConfig: integrator and strictMode, the same for both sessions
    sessions,         \* the two SimulationRuntime objects
    integrators,      \* VerletIntegrator.prevAcceleration of each integrator object
    simLog,           \* the action lists given, and what each step() call gave back
    \* collision/contact: ContactCallbackRegistry and ContactManager
    callbacks,        \* ContactCallbackRegistry.onEnter, onStay, onExit: the number of
                      \* callbacks registered for each entity
    activeContacts,   \* ContactCallbackRegistry.activeContacts: Set in insertion order
    registryLog,      \* the last processContacts call: its events, the active contacts
                      \* before it, and the callbacks it called; the callbacks called
                      \* by all calls so far
    manifolds,        \* ContactManager.manifolds: Map in insertion order
    managerLog,       \* the addContact calls made since the last clear()
    \* simulation/runtime.ts, step() calls that are not awaited
    pending,          \* the step() calls suspended at `await this.initialize(...)`, in
                      \* the order their continuations are queued
    asyncLog,         \* the number of step() calls made on session 1 and, in the order
                      \* of completion, what each call returned
    \* simulation/runtime.ts, DeterministicRuntime.advance statement by statement
    loop,             \* a DeterministicRuntime built with any config: its config, its
                      \* fields, the locals of the advance call in progress and the
                      \* position of that call
    \* world/entity.ts, the Vector3 objects of session 1 by reference
    heap              \* the Vector3 objects allocated, the objects the entities of
                      \* session 1 refer to, and the objects the descriptors passed
                      \* to addEntity and the snapshots returned refer to

bpVars == <<simpleEntities, cells, entityBounds, entityCells, entries, entityMap,
            bpResult, bpOps>>

clockVars == <<accumulator, currentStep, clockLog>>

seedVars == <<masterSeed, streams, restoredStreams, seedSnapshot, seedLog>>

randomVars == <<generators, randomLog>>

simVars == <<config, sessions, integrators, simLog>>

contactVars == <<callbacks, activeContacts, registryLog, manifolds, managerLog>>

asyncVars == <<pending, asyncLog>>

vars == <<bpVars, clockVars, seedVars, randomVars, simVars, call, contactVars, asyncVars, loop, heap>>

notSimHeapVars == <<bpVars, clockVars, seedVars, randomVars, call, contactVars, asyncVars, loop>>

notLoopVars == <<bpVars, clockVars, seedVars, randomVars, simVars, call, contactVars, asyncVars, heap>>

notSimAsyncVars == <<bpVars, clockVars, seedVars, randomVars, call, contactVars, loop, heap>>

notContactVars == <<bpVars, clockVars, seedVars, randomVars, simVars, call, asyncVars, loop, heap>>

notBpVars == <<clockVars, seedVars, randomVars, simVars, call, contactVars, asyncVars, loop, heap>>

notClockVars == <<bpVars, seedVars, randomVars, simVars, call, contactVars, asyncVars, loop, heap>>

notSeedVars == <<bpVars, clockVars, randomVars, simVars, call, contactVars, asyncVars, loop, heap>>

notRandomVars == <<bpVars, clockVars, seedVars, simVars, call, contactVars, asyncVars, loop, heap>>

notSimVars == <<bpVars, clockVars, seedVars, randomVars, call, contactVars, asyncVars, loop, heap>>

notCallVars == <<bpVars, clockVars, seedVars, randomVars, simVars, contactVars, asyncVars, loop, heap>>

(***************************************************************************)
(* Bounds of the model.                                                    *)
(***************************************************************************)
MaxCallbacks == 1

MaxProcessed == 2

MaxEvents == 2

MaxContacts == 3

NumIds == 3
MaxOps == 4
MaxCalls == 4
MaxDraws == 2
MaxResumed == 2
MasterSeeds == {42, 7}
MaxTicks == 2
MaxForks == 2

\* the longest sequence of step hashes computeFinalHash is called on
MaxHashes == 3

\* the number of reset() calls on a session
MaxResets == 1

\* getState(), addEntity and removeEntity calls on the session whose objects
\* are followed
MaxSnapshots == 1

MaxDescriptors == 2

MaxRemoved == 1

\* advance calls made on the DeterministicRuntime built with any config
MaxAdvances == 2

\* a counter held in a double stops growing when it reaches 2^53; the counters
\* of the runtime built with any config stop at MaxCount, which is more than
\* MaxAdvances calls of ten steps reach
MaxCount == 24

\* Entity ids are strings in the code, compared with < ; an id is modelled by
\* its rank in that order.
Ids == 1..NumIds

(***************************************************************************)
(* Sequences helpers.                                                      *)
(***************************************************************************)
RECURSIVE SeqIndexOf(_, _, _)
\* index of the first element of s from position i on that satisfies key = k, 0 if none
SeqIndexOf(s, k, i) ==
    IF i > Len(s) THEN 0
    ELSE IF s[i].id = k THEN i
    ELSE SeqIndexOf(s, k, i + 1)

RemoveAt(s, i) == SubSeq(s, 1, i - 1) \o SubSeq(s, i + 1, Len(s))

Range(s) == {s[i] : i \in 1..Len(s)}

(***************************************************************************)
(* world/transform: AABBOps.intersects.  Coordinates are integers here     *)
(* (every AABB the model inserts has integral corners).                    *)
(***************************************************************************)
Vec(x, y, z) == [x |-> x, y |-> y, z |-> z]

Box(x1, x2, y1, y2) == [min |-> Vec(x1, y1, 0), max |-> Vec(x2, y2, 1)]

Intersects(a, b) ==
    /\ a.min.x <= b.max.x /\ a.max.x >= b.min.x
    /\ a.min.y <= b.max.y /\ a.max.y >= b.min.y
    /\ a.min.z <= b.max.z /\ a.max.z >= b.min.z

\* The AABBs the model inserts: touching boxes, boxes spanning several grid
\* cells, boxes sharing a cell without intersecting, a box left of the origin.
Boxes ==
    { Box(0, 4, 0, 4),      \* one cell
      Box(4, 12, 0, 4),     \* touches the first at x = 4, spans two cells
      Box(8, 25, 2, 12),    \* spans six cells, shares two with the second
      Box(-3, 1, 0, 4),     \* cells -1 and 0
      Box(13, 15, 20, 22),  \* inside the third's x range, apart in y
      Box(2, 3, 6, 7) }     \* in the first's cell, apart in y

(***************************************************************************)
(* SimpleBroadphase                                                        *)
(***************************************************************************)
\* Map.set: a present key keeps its place, a new key goes last
MapSet(m, id, bounds) ==
    LET i == SeqIndexOf(m, id, 1) IN
    IF i = 0 THEN Append(m, [id |-> id, bounds |-> bounds])
    ELSE [m EXCEPT ![i].bounds = bounds]

MapDelete(m, id) ==
    LET i == SeqIndexOf(m, id, 1) IN
    IF i = 0 THEN m ELSE RemoveAt(m, i)

MapKeys(m) == {m[i].id : i \in 1..Len(m)}

NoCheck == [pairs |-> <<>>, checksPerformed |-> 0]

SimplePairCanonical(idA, idB) ==
    [entityA |-> IF idA < idB THEN idA ELSE idB,
     entityB |-> IF idA < idB THEN idB ELSE idA]

\* broadphase.ts:66  pairs.push({ entityA: idA, entityB: idB })
SimplePair(idA, idB) == [entityA |-> idA, entityB |-> idB]

RECURSIVE SimpleLoop(_, _, _, _)
SimpleLoop(es, i, j, acc) ==
    IF i > Len(es) THEN acc
    ELSE IF j > Len(es) THEN SimpleLoop(es, i + 1, i + 2, acc)
    ELSE SimpleLoop(es, i, j + 1,
            [pairs |-> IF Intersects(es[i].bounds, es[j].bounds)
                       THEN Append(acc.pairs, SimplePair(es[i].id, es[j].id))
                       ELSE acc.pairs,
             checksPerformed |-> acc.checksPerformed + 1])

SimpleQueryPairs(es) == SimpleLoop(es, 1, 2, NoCheck)

(***************************************************************************)
(* SpatialHashBroadphase                                                   *)
(***************************************************************************)
CellSize == 10

FloorDiv(a, b) == a \div b

RECURSIVE CellLoop(_, _, _, _, _, _, _)
\* the three nested loops of getCellsForBounds, x outermost
CellLoop(x, y, z, lo, hi, maxX, acc) ==
    IF x > maxX THEN acc
    ELSE IF y > hi[1] THEN CellLoop(x + 1, lo[1], lo[2], lo, hi, maxX, acc)
    ELSE IF z > hi[2] THEN CellLoop(x, y + 1, lo[2], lo, hi, maxX, acc)
    ELSE CellLoop(x, y, z + 1, lo, hi, maxX, Append(acc, <<x, y, z>>))

GetCellsForBounds(bounds) ==
    LET minX == FloorDiv(bounds.min.x, CellSize)
        maxX == FloorDiv(bounds.max.x, CellSize)
        minY == FloorDiv(bounds.min.y, CellSize)
        maxY == FloorDiv(bounds.max.y, CellSize)
        minZ == FloorDiv(bounds.min.z, CellSize)
        maxZ == FloorDiv(bounds.max.z, CellSize)
    IN CellLoop(minX, minY, minZ, <<minY, minZ>>, <<maxY, maxZ>>, maxX, <<>>)

RECURSIVE CellIndexOf(_, _, _)
CellIndexOf(cs, key, i) ==
    IF i > Len(cs) THEN 0
    ELSE IF cs[i].key = key THEN i
    ELSE CellIndexOf(cs, key, i + 1)

\* Set.add: a present element keeps its place
SetAdd(s, id) == IF id \in Range(s) THEN s ELSE Append(s, id)

SetDelete(s, id) == SelectSeq(s, LAMBDA e : e # id)

RECURSIVE AddToCells(_, _, _, _)
\* broadphase.ts:119-126 and 141-148
AddToCells(cs, keys, k, id) ==
    IF k > Len(keys) THEN cs
    ELSE LET i == CellIndexOf(cs, keys[k], 1) IN
         AddToCells(IF i = 0
                    THEN Append(cs, [key |-> keys[k], ids |-> <<id>>])
                    ELSE [cs EXCEPT ![i].ids = SetAdd(@, id)],
                    keys, k + 1, id)

\* this.cells.get(cell)?.delete(id) for every cell of keys
RemoveFromCells(cs, keys, id) ==
    [i \in 1..Len(cs) |->
        IF cs[i].key \in Range(keys)
        THEN [cs[i] EXCEPT !.ids = SetDelete(@, id)]
        ELSE cs[i]]

HasPair(pairs, p) == \E i \in 1..Len(pairs) : pairs[i] = p

RECURSIVE HashCellLoop(_, _, _, _, _)
\* the i, j loops of queryPairs over the ids of one cell
HashCellLoop(ids, i, j, bnds, acc) ==
    IF i > Len(ids) THEN acc
    ELSE IF j > Len(ids) THEN HashCellLoop(ids, i + 1, i + 2, bnds, acc)
    ELSE LET idA == ids[i]
             idB == ids[j]
             p == SimplePairCanonical(idA, idB)
         IN IF HasPair(acc.pairs, p)
            THEN HashCellLoop(ids, i, j + 1, bnds, acc)
            ELSE HashCellLoop(ids, i, j + 1, bnds,
                    [pairs |-> IF /\ idA \in DOMAIN bnds
                                  /\ idB \in DOMAIN bnds
                                  /\ Intersects(bnds[idA], bnds[idB])
                               THEN Append(acc.pairs, p)
                               ELSE acc.pairs,
                     checksPerformed |-> acc.checksPerformed + 1])

RECURSIVE HashLoop(_, _, _, _)
HashLoop(cs, c, bnds, acc) ==
    IF c > Len(cs) THEN acc
    ELSE HashLoop(cs, c + 1, bnds, HashCellLoop(cs[c].ids, 1, 2, bnds, acc))

SpatialHashQueryPairs(cs, bnds) == HashLoop(cs, 1, bnds, NoCheck)

(***************************************************************************)
(* SweepAndPruneBroadphase                                                 *)
(***************************************************************************)
SAPEntry(id, bounds) ==
    [id |-> id, bounds |-> bounds, minX |-> bounds.min.x, maxX |-> bounds.max.x]

RECURSIVE InsertSorted(_, _)
\* e goes after every element that does not compare greater: the sort is stable
InsertSorted(s, e) ==
    IF s = <<>> THEN <<e>>
    ELSE IF s[Len(s)].minX - e.minX > 0
         THEN Append(InsertSorted(SubSeq(s, 1, Len(s) - 1), e), s[Len(s)])
         ELSE Append(s, e)

RECURSIVE SortByMinX(_)
\* Array.prototype.sort((a, b) => a.minX - b.minX)
SortByMinX(s) ==
    IF s = <<>> THEN <<>>
    ELSE InsertSorted(SortByMinX(SubSeq(s, 1, Len(s) - 1)), s[Len(s)])

SapBreakStrict(entryA, entryB) == entryB.minX >= entryA.maxX

\* broadphase.ts:328  if (entryB.minX > entryA.maxX) break
SapBreak(entryA, entryB) == entryB.minX > entryA.maxX

RECURSIVE SapLoop(_, _, _, _)
SapLoop(es, i, j, acc) ==
    IF i > Len(es) THEN acc
    ELSE IF j > Len(es) \/ SapBreak(es[i], es[j]) THEN SapLoop(es, i + 1, i + 2, acc)
    ELSE SapLoop(es, i, j + 1,
            [pairs |-> IF Intersects(es[i].bounds, es[j].bounds)
                       THEN Append(acc.pairs, SimplePairCanonical(es[i].id, es[j].id))
                       ELSE acc.pairs,
             checksPerformed |-> acc.checksPerformed + 1])

\* on the entries already sorted
SapQueryPairs(sorted) == SapLoop(sorted, 1, 2, NoCheck)

\* the indices of remove()'s loop "for (i = index; i < entries.length; i++)"
RECURSIVE Reindex(_, _, _)
Reindex(m, es, i) ==
    IF i >= Len(es) THEN m
    ELSE Reindex([id \in (DOMAIN m) \cup {es[i + 1].id} |->
                     IF id = es[i + 1].id THEN i ELSE m[id]],
                 es, i + 1)

MapWithout(m, id) == [k \in (DOMAIN m) \ {id} |-> m[k]]

MapWith(m, id, v) == [k \in (DOMAIN m) \cup {id} |-> IF k = id THEN v ELSE m[k]]

(***************************************************************************)
(* The three backends, driven by the same calls.                           *)
(***************************************************************************)
NoResult == [simple |-> <<>>, hash |-> <<>>, sap |-> <<>>, valid |-> FALSE]

InitBroadphase ==
    /\ simpleEntities = <<>>
    /\ cells = <<>>
    /\ entityBounds = <<>>
    /\ entityCells = <<>>
    /\ entries = <<>>
    /\ entityMap = <<>>
    /\ bpResult = NoResult
    /\ bpOps = 0

\* insert(id, bounds) on the three backends, for an id the caller has not inserted
Insert(id, bounds) ==
    /\ bpOps < MaxOps
    /\ id \notin MapKeys(simpleEntities)
    /\ simpleEntities' = MapSet(simpleEntities, id, bounds)
    /\ entityBounds' = MapWith(entityBounds, id, bounds)
    /\ entityCells' = MapWith(entityCells, id, GetCellsForBounds(bounds))
    /\ cells' = AddToCells(cells, GetCellsForBounds(bounds), 1, id)
    /\ entityMap' = MapWith(entityMap, id, Len(entries))
    /\ entries' = Append(entries, SAPEntry(id, bounds))
    /\ bpResult' = NoResult
    /\ bpOps' = bpOps + 1

\* update(id, bounds) on the three backends, for an id the caller has inserted
Update(id, bounds) ==
    /\ bpOps < MaxOps
    /\ id \in MapKeys(simpleEntities)
    /\ simpleEntities' = MapSet(simpleEntities, id, bounds)
    /\ LET oldCells == IF id \in DOMAIN entityCells THEN entityCells[id] ELSE <<>>
       IN cells' = AddToCells(RemoveFromCells(cells, oldCells, id),
                              GetCellsForBounds(bounds), 1, id)
    /\ entityBounds' = MapWith(entityBounds, id, bounds)
    /\ entityCells' = MapWith(entityCells, id, GetCellsForBounds(bounds))
    /\ IF id \in DOMAIN entityMap /\ entityMap[id] < Len(entries)
       THEN entries' = [entries EXCEPT ![entityMap[id] + 1] =
                           [@ EXCEPT !.bounds = bounds,
                                     !.minX = bounds.min.x,
                                     !.maxX = bounds.max.x]]
       ELSE entries' = entries
    /\ entityMap' = entityMap
    /\ bpResult' = NoResult
    /\ bpOps' = bpOps + 1

\* remove(id) on the three backends, for an id the caller has inserted
Remove(id) ==
    /\ bpOps < MaxOps
    /\ id \in MapKeys(simpleEntities)
    /\ simpleEntities' = MapDelete(simpleEntities, id)
    /\ LET oldCells == IF id \in DOMAIN entityCells THEN entityCells[id] ELSE <<>>
       IN cells' = RemoveFromCells(cells, oldCells, id)
    /\ entityBounds' = MapWithout(entityBounds, id)
    /\ entityCells' = MapWithout(entityCells, id)
    /\ IF id \in DOMAIN entityMap
       THEN LET index == entityMap[id]
                spliced == IF index < Len(entries)
                           THEN RemoveAt(entries, index + 1) ELSE entries
            IN /\ entries' = spliced
               /\ entityMap' = Reindex(MapWithout(entityMap, id), spliced, index)
       ELSE /\ entries' = entries
            /\ entityMap' = entityMap
    /\ bpResult' = NoResult
    /\ bpOps' = bpOps + 1

\* clear() on the three backends
ClearBroadphase ==
    /\ bpOps < MaxOps
    /\ simpleEntities' = << >>
    /\ cells' = << >>
    /\ entityBounds' = << >>
    /\ entityCells' = << >>
    /\ entries' = << >>
    /\ entityMap' = << >>
    /\ bpResult' = NoResult
    /\ bpOps' = bpOps + 1

\* queryPairs() on the three backends; the sweep-and-prune one sorts its entries
QueryPairs ==
    /\ ~bpResult.valid
    /\ entries' = SortByMinX(entries)
    /\ bpResult' = [simple |-> SimpleQueryPairs(simpleEntities).pairs,
                    hash |-> SpatialHashQueryPairs(cells, entityBounds).pairs,
                    sap |-> SapQueryPairs(SortByMinX(entries)).pairs,
                    valid |-> TRUE]
    /\ UNCHANGED <<simpleEntities, cells, entityBounds, entityCells, entityMap, bpOps>>

(***************************************************************************)
(* binary64 numbers.  The clock adds, subtracts and compares doubles, and  *)
(* its behaviour depends on their rounding.  A double is modelled exactly, *)
(* as the integer number of units of 2^-60 it holds, written in two limbs  *)
(* <<hi, lo>> = hi * 2^30 + lo with 0 <= lo < 2^30 (hi < 0 for a negative  *)
(* number).  Every double d with 2^-8 <= |d| < 2, and every sum or         *)
(* difference of such doubles once rounded, is a whole number of units;    *)
(* a sum is rounded to 53 significant bits, ties to even, as IEEE 754      *)
(* does.                                                                   *)
(***************************************************************************)
Limb == 1024 * 1024 * 1024

F(hi, lo) == <<hi, lo>>

FZero == F(0, 0)

FAddExact(a, b) ==
    LET lo == a[2] + b[2]
    IN F(a[1] + b[1] + (lo \div Limb), lo % Limb)

FNeg(a) == IF a[2] = 0 THEN F(-a[1], 0) ELSE F(-a[1] - 1, Limb - a[2])

FLess(a, b) == a[1] < b[1] \/ (a[1] = b[1] /\ a[2] < b[2])

RECURSIVE BitLen(_)
BitLen(n) == IF n = 0 THEN 0 ELSE 1 + BitLen(n \div 2)

RECURSIVE Pow2(_)
Pow2(k) == IF k = 0 THEN 1 ELSE 2 * Pow2(k - 1)

\* a non-negative number rounded to 53 significant bits, ties to even
RoundMagnitude(m) ==
    LET len == IF m[1] > 0 THEN BitLen(m[1]) + 30 ELSE BitLen(m[2])
    IN IF len <= 53 THEN m
       ELSE LET q == Pow2(len - 53)
                r == m[2] % q
                down == F(m[1], m[2] - r)
                odd == ((m[2] \div q) % 2) = 1
            IN IF 2 * r > q \/ (2 * r = q /\ odd)
               THEN FAddExact(down, F(0, q))
               ELSE down

Round53(m) == IF m[1] < 0 THEN FNeg(RoundMagnitude(FNeg(m))) ELSE RoundMagnitude(m)

\* a + b and a - b in binary64
FAdd(a, b) == Round53(FAddExact(a, b))

FSub(a, b) == Round53(FAddExact(a, FNeg(b)))

RECURSIVE FTimesExact(_, _)
FTimesExact(a, n) == IF n = 0 THEN FZero ELSE FAddExact(FTimesExact(a, n - 1), a)

\* a * n in binary64, n a small whole number
FMulInt(a, n) == Round53(FTimesExact(a, n))

(***************************************************************************)
(* DeterministicRuntime: the fixed-step accumulator.                       *)
(***************************************************************************)
\* runtime.ts:573  fixedTimestep: config.fixedTimestep ?? 0.016, as a double
FixedTimestep == F(17179869, 197568496)

\* runtime.ts:574  maxSubsteps: config.maxSubsteps ?? 10
MaxSubsteps == 10

\* The deltaTime values the model passes, as doubles: 0.005, 0.011, 0.016,
\* 0.008 (half a step), 0.256 (sixteen steps, more than maxSubsteps), -0.008,
\* and three deltas whose sum is two steps while their binary64 running sum
\* is rounded: 0.01159975594142187, 0.02029729911240586,
\* 0.00010294494617226965.
D0_005 == F(5368709, 128849019)
D0_011 == F(11811160, 68719476)
D0_016 == F(17179869, 197568496)
D0_008 == F(8589934, 635655160)
D0_256 == F(274877906, 1013612288)
DMinus0_008 == F(-8589935, 438086664)
DR1 == F(12455143, 110055484)
DR2 == F(21794058, 1042848392)
DR3 == F(110536, 315974940)

Deltas == {D0_005, D0_011, D0_016, D0_008, D0_256, DMinus0_008, DR1, DR2, DR3}

\* runtime.ts:615-617  clamp the accumulator to fixedTimestep * maxSubsteps
NoClamp(acc) == acc

ClampAccumulator(acc) ==
    LET maxTime == FMulInt(FixedTimestep, MaxSubsteps)
    IN IF FLess(maxTime, acc) THEN maxTime ELSE acc

CoversStepStrict(acc) == FLess(FixedTimestep, acc)

\* runtime.ts:619  while (this.accumulator >= this.config.fixedTimestep)
CoversStep(acc) == ~FLess(acc, FixedTimestep)

RECURSIVE StepLoop(_)
\* runtime.ts:619-624: st = [accumulator, currentStep, stepsTaken, calls, rounded];
\* calls are the (dt, step) arguments of the callback's invocations
StepLoop(st) ==
    IF ~CoversStep(st.accumulator) THEN st
    ELSE StepLoop([accumulator |-> FSub(st.accumulator, FixedTimestep),
                   currentStep |-> st.currentStep + 1,
                   stepsTaken |-> st.stepsTaken + 1,
                   calls |-> Append(st.calls, <<FixedTimestep, st.currentStep>>),
                   rounded |-> st.rounded \/
                       FSub(st.accumulator, FixedTimestep) #
                           FAddExact(st.accumulator, FNeg(FixedTimestep))])

AdvanceDropRemainder(acc, step, deltaTime) ==
    [StepLoop([accumulator |-> ClampAccumulator(FAdd(acc, deltaTime)),
               currentStep |-> step,
               stepsTaken |-> 0,
               calls |-> <<>>,
               rounded |-> FAdd(acc, deltaTime) # FAddExact(acc, deltaTime)])
        EXCEPT !.accumulator = FZero]

\* advance(deltaTime, stepCallback) as a function of the state before the call
AdvanceResult(acc, step, deltaTime) ==
    StepLoop([accumulator |-> ClampAccumulator(FAdd(acc, deltaTime)),
              currentStep |-> step,
              stepsTaken |-> 0,
              calls |-> <<>>,
              rounded |-> FAdd(acc, deltaTime) # FAddExact(acc, deltaTime)])

\* runtime.ts:572-573  the fixedTimestep and maxSubsteps values the constructor
\* is given: 0.016, 0.008, 0 and -0.016; 10 and 1
FixedTimesteps == {FixedTimestep, D0_008, FZero, FNeg(FixedTimestep)}

MaxSubstepsValues == {MaxSubsteps, 1}

\* runtime.ts:571-581  new DeterministicRuntime({fixedTimestep, maxSubsteps})
Constructed(fixedTimestep, maxSubsteps) ==
    [fixedTimestep |-> fixedTimestep,
     maxSubsteps   |-> maxSubsteps,
     accumulator   |-> FZero,
     currentStep   |-> 0,
     stepsTaken    |-> 0,
     pc            |-> "idle",      \* "while": at the loop test of an advance call
     callbacks     |-> 0,           \* stepCallback invocations so far, modulo 2
     advances      |-> 0,           \* advance calls made
     returned      |-> 0]           \* advance calls that returned

InitLoop == loop = Constructed(FixedTimestep, MaxSubsteps)

Counted(n) == IF n < MaxCount THEN n + 1 ELSE n

\* a double that keeps growing by the same amount stops when the amount is
\* less than half its last bit; the accumulator of the runtime built with any
\* config stops growing above 1, which no clamped accumulator reaches
Absorbed(acc, next) == IF FLess(F(Limb, 0), next) THEN acc ELSE next

\* runtime.ts:609-617  advance(deltaTime, stepCallback) up to the loop test
EnterAdvance(deltaTime) ==
    /\ loop.pc = "idle"
    /\ loop.advances < MaxAdvances
    /\ \E maxTime \in {FMulInt(loop.fixedTimestep, loop.maxSubsteps)},
          sum \in {FAdd(loop.accumulator, deltaTime)} :
           loop' = [loop EXCEPT
                       !.accumulator = IF FLess(maxTime, sum) THEN maxTime ELSE sum,
                       !.stepsTaken  = 0,
                       !.pc          = "while",
                       !.advances    = @ + 1]

\* runtime.ts:619-624  the loop test holds and the body runs once
WhileBody ==
    /\ loop.pc = "while"
    /\ ~FLess(loop.accumulator, loop.fixedTimestep)
    /\ loop' = [loop EXCEPT
                   !.accumulator = Absorbed(@, FSub(@, loop.fixedTimestep)),
                   !.currentStep = Counted(@),
                   !.stepsTaken  = Counted(@),
                   !.callbacks   = 1 - @]

\* runtime.ts:619, 626  the loop test fails and advance returns stepsTaken
ReturnAdvance ==
    /\ loop.pc = "while"
    /\ FLess(loop.accumulator, loop.fixedTimestep)
    /\ loop' = [loop EXCEPT !.pc = "idle", !.returned = @ + 1]

EmptyLog ==
    [deltas |-> <<>>,       \* the deltaTime of every call so far
     total |-> 0,           \* callbacks invoked over all calls
     returned |-> 0,        \* the last call's return value
     calls |-> <<>>,        \* the last call's callback arguments
     clamped |-> FALSE,     \* some call clamped the accumulator
     rounded |-> FALSE]     \* some addition or subtraction was rounded

InitClock ==
    /\ accumulator = FZero
    /\ currentStep = 0
    /\ clockLog = EmptyLog

Advance(deltaTime) ==
    /\ Len(clockLog.deltas) < MaxCalls
    /\ LET r == AdvanceResult(accumulator, currentStep, deltaTime)
       IN /\ accumulator' = r.accumulator
          /\ currentStep' = r.currentStep
          /\ clockLog' =
               [deltas |-> Append(clockLog.deltas, deltaTime),
                total |-> clockLog.total + Len(r.calls),
                returned |-> r.stepsTaken,
                calls |-> r.calls,
                clamped |-> clockLog.clamped \/
                    ClampAccumulator(FAdd(accumulator, deltaTime)) # FAdd(accumulator, deltaTime),
                rounded |-> clockLog.rounded \/ r.rounded]

(***************************************************************************)
(* binary64 numbers in general.  A finite double is sign * mant * 2^exp    *)
(* with mant a natural number of exactly 53 bits (or zero, which keeps its *)
(* sign); mant is a sequence of 15-bit limbs, least significant first,     *)
(* without leading zero limbs.  Every operation computes the exact result  *)
(* and rounds it to 53 bits, ties to even, as IEEE 754 does.  Infinity and  *)
(* NaN are the records of exponent 1024, above every finite exponent;      *)
(* subnormal results are out of the range the model reaches.               *)
(***************************************************************************)
LimbBase == 128 * 256

LimbAt(a, i) == IF i <= Len(a) THEN a[i] ELSE 0

Zeros(n) == [i \in 1..n |-> 0]

RECURSIVE BigTrim(_)
BigTrim(a) ==
    IF a = << >> \/ a[Len(a)] /= 0 THEN a ELSE BigTrim(SubSeq(a, 1, Len(a) - 1))

RECURSIVE BigAddFrom(_, _, _, _)
BigAddFrom(a, b, i, carry) ==
    IF i > Len(a) /\ i > Len(b) THEN (IF carry = 0 THEN << >> ELSE <<carry>>)
    ELSE LET s == LimbAt(a, i) + LimbAt(b, i) + carry
         IN  <<s % LimbBase>> \o BigAddFrom(a, b, i + 1, s \div LimbBase)

BigAdd(a, b) == BigAddFrom(a, b, 1, 0)

RECURSIVE BigSubFrom(_, _, _, _)
BigSubFrom(a, b, i, borrow) ==
    IF i > Len(a) THEN << >>
    ELSE LET d == a[i] - LimbAt(b, i) - borrow
         IN  <<d % LimbBase>> \o BigSubFrom(a, b, i + 1, IF d < 0 THEN 1 ELSE 0)

\* a - b for a >= b
BigSub(a, b) == BigTrim(BigSubFrom(a, b, 1, 0))

RECURSIVE BigCmpFrom(_, _, _)
BigCmpFrom(a, b, i) ==
    IF i = 0 THEN 0
    ELSE IF a[i] /= b[i] THEN (IF a[i] < b[i] THEN -1 ELSE 1)
    ELSE BigCmpFrom(a, b, i - 1)

\* -1, 0 or 1 as a < b, a = b or a > b
BigCmp(a, b) ==
    IF Len(a) /= Len(b) THEN (IF Len(a) < Len(b) THEN -1 ELSE 1)
    ELSE BigCmpFrom(a, b, Len(a))

RECURSIVE BigMulSmall(_, _, _, _)
\* limbs i.. of a, times k < 2^15, plus carry
BigMulSmall(a, k, i, carry) ==
    IF i > Len(a) THEN (IF carry = 0 THEN << >> ELSE <<carry>>)
    ELSE LET p == a[i] * k + carry
         IN  <<p % LimbBase>> \o BigMulSmall(a, k, i + 1, p \div LimbBase)

RECURSIVE BigMulFrom(_, _, _)
BigMulFrom(a, b, i) ==
    IF i > Len(b) THEN << >>
    ELSE BigAdd(Zeros(i - 1) \o BigMulSmall(a, b[i], 1, 0), BigMulFrom(a, b, i + 1))

BigMul(a, b) == BigTrim(BigMulFrom(a, b, 1))

\* a * 2^n
BigShl(a, n) ==
    IF a = << >> THEN a ELSE Zeros(n \div 15) \o BigMulSmall(a, Pow2(n % 15), 1, 0)

\* floor(a / 2^n)
BigShr(a, n) ==
    LET s == SubSeq(a, (n \div 15) + 1, Len(a))
        p == Pow2(n % 15)
    IN  BigTrim([i \in 1..Len(s) |->
                    (s[i] \div p) + (LimbAt(s, i + 1) % p) * (LimbBase \div p)])

BigBitLen(a) == IF a = << >> THEN 0 ELSE 15 * (Len(a) - 1) + BitLen(a[Len(a)])

RECURSIVE BigOf(_)
BigOf(n) == IF n = 0 THEN << >> ELSE <<n % LimbBase>> \o BigOf(n \div LimbBase)

Num(sign, mant, exp) == [sign |-> sign, mant |-> mant, exp |-> exp]

NumZero(sign) == Num(sign, << >>, 0)

IsZero(a) == a.mant = << >>

NumInf(sign) == Num(sign, <<1>>, 1024)

NumNaN == Num(0, <<2>>, 1024)

IsInf(a) == a.exp = 1024 /\ a.mant = <<1>>

IsNaN(a) == a.exp = 1024 /\ a.mant = <<2>>

\* the double of a 53-bit mantissa: Infinity from 2^1024 on
Finite(sign, mant, exp) == IF exp > 971 THEN NumInf(sign) ELSE Num(sign, mant, exp)

\* rounding, last step: r has 53 bits, or 54 after a carry out of the rounding
RoundCarry(sign, r, exp) ==
    IF BigBitLen(r) > 53 THEN Finite(sign, BigShr(r, 1), exp + 1) ELSE Finite(sign, r, exp)

\* rounding to nearest, ties to even: q are the 53 leading bits, c is -1, 0 or
\* 1 as the bits cut off are below, at or above one half
RoundNearest(sign, q, c, exp, sticky) ==
    RoundCarry(sign,
               IF c > 0 \/ (c = 0 /\ (sticky \/ q[1] % 2 = 1)) THEN BigAdd(q, <<1>>) ELSE q,
               exp)

\* rounding of a mantissa of 53 + sh bits, q being its 53 leading bits
RoundCut(sign, mant, q, sh, exp, sticky) ==
    RoundNearest(sign, q, BigCmp(BigSub(mant, BigShl(q, sh)), BigShl(<<1>>, sh - 1)),
                 exp, sticky)

\* rounding of a mantissa of 53 + sh bits
RoundShift(sign, mant, exp, sticky, sh) ==
    IF sh <= 0 THEN Finite(sign, BigShl(mant, -sh), exp + sh)
    ELSE RoundCut(sign, mant, BigShr(mant, sh), sh, exp + sh, sticky)

\* the double nearest to (-1)^sign * (mant + s) * 2^exp, where 0 < s < 1 if
\* sticky and s = 0 otherwise
NumRound(sign, mant, exp, sticky) ==
    IF mant = << >> THEN NumZero(sign)
    ELSE RoundShift(sign, mant, exp, sticky, BigBitLen(mant) - 53)

\* the double nearest to (-1)^sign * (st.q + s) * 2^exp, where 0 < s < 1 if a
\* remainder st.r is left and s = 0 otherwise
NumRoundInexact(sign, st, exp) == NumRound(sign, st.q, exp, st.r /= << >>)

\* -a; NaN is kept as the one record NumNaN
NumNeg(a) == [a EXCEPT !.sign = IF IsNaN(a) THEN 0 ELSE 1 - a.sign]

\* a == b as numbers: -0 equals 0, NaN equals nothing
NumEq(a, b) == ~IsNaN(a) /\ ((IsZero(a) /\ IsZero(b)) \/ a = b)

\* (-1)^sa * ma * 2^exp + (-1)^sb * mb * 2^exp, neither term being zero
AddAligned(sa, ma, sb, mb, exp) ==
    IF sa /= sb /\ BigCmp(ma, mb) = 0 THEN NumZero(0)
    ELSE NumRound(IF sa = sb \/ BigCmp(ma, mb) > 0 THEN sa ELSE sb,
                  IF sa = sb THEN BigAdd(ma, mb)
                  ELSE IF BigCmp(ma, mb) > 0 THEN BigSub(ma, mb) ELSE BigSub(mb, ma),
                  exp, FALSE)

Min(m, n) == IF m < n THEN m ELSE n

\* a + b when one of them is not finite
AddSpecial(a, b) ==
    IF IsNaN(a) \/ IsNaN(b) \/ (IsInf(a) /\ IsInf(b) /\ a.sign /= b.sign) THEN NumNaN
    ELSE IF IsInf(a) THEN a ELSE b

NumAdd(a, b) ==
    IF a.exp = 1024 \/ b.exp = 1024 THEN AddSpecial(a, b)
    ELSE IF IsZero(a) /\ IsZero(b) THEN NumZero(IF a.sign = 1 /\ b.sign = 1 THEN 1 ELSE 0)
    ELSE IF IsZero(a) THEN b
    ELSE IF IsZero(b) THEN a
    ELSE AddAligned(a.sign, BigShl(a.mant, a.exp - Min(a.exp, b.exp)),
                    b.sign, BigShl(b.mant, b.exp - Min(a.exp, b.exp)),
                    Min(a.exp, b.exp))

NumSub(a, b) == NumAdd(a, NumNeg(b))

\* a * b when one of them is not finite
MulSpecial(a, b) ==
    IF IsNaN(a) \/ IsNaN(b) \/ IsZero(a) \/ IsZero(b) THEN NumNaN
    ELSE NumInf((a.sign + b.sign) % 2)

NumMul(a, b) ==
    IF a.exp = 1024 \/ b.exp = 1024 THEN MulSpecial(a, b)
    ELSE IF IsZero(a) \/ IsZero(b) THEN NumZero((a.sign + b.sign) % 2)
    ELSE NumRound((a.sign + b.sign) % 2, BigMul(a.mant, b.mant), a.exp + b.exp, FALSE)

RECURSIVE DivBits(_, _, _)
\* the n-bit quotient and the remainder of r * 2^n by d, for r < d and n < 15
DivBits(r, d, n) ==
    IF n = 0 THEN [q |-> 0, r |-> r]
    ELSE LET r2   == BigShl(r, 1)
             ge   == BigCmp(r2, d) >= 0
             rest == DivBits(IF ge THEN BigSub(r2, d) ELSE r2, d, n - 1)
         IN  [q |-> (IF ge THEN Pow2(n - 1) ELSE 0) + rest.q, r |-> rest.r]

RECURSIVE DivChunks(_, _, _, _)
\* k more chunks of 14 quotient bits, after the quotient bits q and the chunk st
DivChunks(q, st, d, k) ==
    IF k = 0 THEN [q |-> BigAdd(BigShl(q, 14), BigOf(st.q)), r |-> st.r]
    ELSE DivChunks(BigAdd(BigShl(q, 14), BigOf(st.q)), DivBits(st.r, d, 14), d, k - 1)

\* a / b when one of them is not finite or b is zero
DivSpecial(a, b) ==
    IF IsNaN(a) \/ IsNaN(b) \/ (IsInf(a) /\ IsInf(b)) \/ (IsZero(a) /\ IsZero(b)) THEN NumNaN
    ELSE IF IsInf(b) THEN NumZero((a.sign + b.sign) % 2)
    ELSE NumInf((a.sign + b.sign) % 2)

\* a / b: 57 bits of the quotient of the mantissas, 14 at a time, and whether
\* a remainder is left
NumDiv(a, b) ==
    IF a.exp = 1024 \/ b.exp = 1024 \/ IsZero(b) THEN DivSpecial(a, b)
    ELSE IF IsZero(a) THEN NumZero((a.sign + b.sign) % 2)
    ELSE NumRoundInexact((a.sign + b.sign) % 2,
                         DivChunks(<< >>,
                                   IF BigCmp(a.mant, b.mant) >= 0
                                   THEN [q |-> 1, r |-> BigSub(a.mant, b.mant)]
                                   ELSE [q |-> 0, r |-> a.mant],
                                   b.mant, 4),
                         a.exp - b.exp - 56)

RECURSIVE SqrtBits(_, _, _, _)
\* the square root of n digit by digit: the bits k-1 .. low of the root after
\* the bits st.q, st.r being the part of n not yet accounted for by st.q
SqrtBits(n, k, low, st) ==
    LET rem   == BigMulSmall(st.r, 4, 1, LimbAt(BigShr(n, 2 * (k - 1)), 1) % 4)
        trial == BigMulSmall(st.q, 4, 1, 1)
    IN  IF k = low THEN st
        ELSE IF BigCmp(rem, trial) >= 0
        THEN SqrtBits(n, k - 1, low,
                      [q |-> BigMulSmall(st.q, 2, 1, 1), r |-> BigSub(rem, trial)])
        ELSE SqrtBits(n, k - 1, low, [q |-> BigMulSmall(st.q, 2, 1, 0), r |-> rem])

\* the 56-bit square root of n, 14 bits at a time, and the remainder
SqrtChunks(n) ==
    SqrtBits(n, 14, 0,
        SqrtBits(n, 28, 14,
            SqrtBits(n, 42, 28,
                SqrtBits(n, 56, 42, [q |-> << >>, r |-> << >>]))))

\* the even number of bits Math.sqrt shifts the mantissa by
SqrtShift(exp) == IF (exp - 58) % 2 = 0 THEN 58 ELSE 57

\* Math.sqrt(a) when a is negative or not finite
SqrtSpecial(a) == IF IsInf(a) /\ a.sign = 0 THEN a ELSE NumNaN

\* Math.sqrt(a)
NumSqrt(a) ==
    IF IsZero(a) THEN a
    ELSE IF a.exp = 1024 \/ a.sign = 1 THEN SqrtSpecial(a)
    ELSE NumRoundInexact(0, SqrtChunks(BigShl(a.mant, SqrtShift(a.exp))),
                         (a.exp - SqrtShift(a.exp)) \div 2)

\* a < b when one of them is not finite
LessSpecial(a, b) ==
    /\ ~IsNaN(a)
    /\ ~IsNaN(b)
    /\ IF IsInf(a) THEN a.sign = 1 /\ ~(IsInf(b) /\ b.sign = 1) ELSE b.sign = 0

\* a < b
NumLess(a, b) ==
    LET below == a.exp < b.exp \/ (a.exp = b.exp /\ BigCmp(a.mant, b.mant) < 0)
        above == b.exp < a.exp \/ (a.exp = b.exp /\ BigCmp(b.mant, a.mant) < 0)
    IN  IF a.exp = 1024 \/ b.exp = 1024 THEN LessSpecial(a, b)
        ELSE IF IsZero(a) THEN ~IsZero(b) /\ b.sign = 0
        ELSE IF IsZero(b) THEN a.sign = 1
        ELSE IF a.sign /= b.sign THEN a.sign = 1
        ELSE IF a.sign = 0 THEN below ELSE above

\* the double of an integer
NumInt(n) == NumRound(IF n < 0 THEN 1 ELSE 0, BigOf(IF n < 0 THEN -n ELSE n), 0, FALSE)

\* the double a decimal literal n / d denotes
NumLit(n, d) == NumDiv(NumInt(n), NumInt(d))

\* the 16 bits of a from bit n on
BigBits(a, n) ==
    LET s == BigShr(a, n) IN LimbAt(s, 1) + (LimbAt(s, 2) % 2) * LimbBase

(***************************************************************************)
(* 32-bit integers.  The generators and the hashes compute on int32 and    *)
(* uint32 values with wrap-around.  A 32-bit word is modelled by its two   *)
(* 16-bit halves <<hi, lo>> = hi * 2^16 + lo, so that no intermediate       *)
(* result leaves the range of the checker's integers.                      *)
(***************************************************************************)
Half == 256 * 256

\* ToInt32 / ToUint32 of a non-negative number hi * 2^16 + lo, hi unbounded
ToWord(n) == <<n[1] % Half, n[2]>>

WAdd(a, b) ==
    LET lo == a[2] + b[2]
    IN  <<(a[1] + b[1] + (lo \div Half)) % Half, lo % Half>>

\* two's complement negation
WNeg(a) ==
    IF a[2] = 0 THEN <<(Half - a[1]) % Half, 0>>
    ELSE <<Half - 1 - a[1], Half - a[2]>>

WIsNegative(a) == a[1] >= Half \div 2

RECURSIVE BitXor(_, _)
BitXor(a, b) ==
    IF a = 0 THEN b
    ELSE IF b = 0 THEN a
    ELSE ((a + b) % 2) + 2 * BitXor(a \div 2, b \div 2)

RECURSIVE BitOr(_, _)
BitOr(a, b) ==
    IF a = 0 THEN b
    ELSE IF b = 0 THEN a
    ELSE (IF a % 2 = 1 \/ b % 2 = 1 THEN 1 ELSE 0) + 2 * BitOr(a \div 2, b \div 2)

WXor(a, b) == <<BitXor(a[1], b[1]), BitXor(a[2], b[2])>>

\* a | k for a constant k < 2^16
WOr(a, k) == <<a[1], BitOr(a[2], k)>>

\* a >>> n for 0 < n < 16, p = 2^n
WShr(a, p) == <<a[1] \div p, (a[1] % p) * (Half \div p) + (a[2] \div p)>>

\* the low 16 bits of the product of two 16-bit numbers
MulLow(a, b) == ((a % 256) * b + (((a \div 256) * b) % 256) * 256) % Half

\* the product of two 16-bit numbers, as a word
MulWide(a, b) ==
    LET x == (a % 256) * b
        y == (a \div 256) * b
        lo == (y % 256) * 256 + (x % Half)
    IN  <<((y \div 256) + (x \div Half) + (lo \div Half)) % Half, lo % Half>>

\* Math.imul
Imul(a, b) ==
    LET p == MulWide(a[2], b[2])
    IN  <<(p[1] + MulLow(a[1], b[2]) + MulLow(a[2], b[1])) % Half, p[2]>>

\* Math.abs of an int32, a number in 0 .. 2^31
WAbs(a) == IF WIsNegative(a) THEN WNeg(a) ELSE a

\* a small non-negative integer as a word
WOf(n) == <<n \div Half, n % Half>>

(***************************************************************************)
(* SeededRandom (Mulberry32).  next() returns u / 2^32 for a uint32 u; the *)
(* division is exact, and the model keeps u.  The state is a JavaScript    *)
(* number that `+=` never wraps: <<hi, lo>> with hi unbounded.             *)
(***************************************************************************)
Increment == <<27947, 31221>>   \* 0x6d2b79f5

NewSeededRandom(seed) == [state |-> seed, initialSeed |-> seed]

\* the state after next()
NextState(state) ==
    LET lo == state[2] + Increment[2]
    IN  <<state[1] + Increment[1] + (lo \div Half), lo % Half>>

\* the value next() returns from the state it has just advanced to
NextValue(state) ==
    LET t0 == ToWord(state)
        t1 == Imul(WXor(t0, WShr(t0, 32768)), WOr(t0, 1))
        t2 == WXor(t1, WAdd(t1, Imul(WXor(t1, WShr(t1, 128)), WOr(t1, 61))))
    IN  WXor(t2, WShr(t2, 16384))

(***************************************************************************)
(* SeedStreamManager.  A subsystem name is the sequence of its char codes. *)
(***************************************************************************)
SubsystemNames == {"physics", "collision", "pathfinding", "sensors", "randomization"}

CharCodes(name) ==
    CASE name = "physics"       -> <<112, 104, 121, 115, 105, 99, 115>>
      [] name = "collision"     -> <<99, 111, 108, 108, 105, 115, 105, 111, 110>>
      [] name = "pathfinding"   -> <<112, 97, 116, 104, 102, 105, 110, 100, 105, 110, 103>>
      [] name = "sensors"       -> <<115, 101, 110, 115, 111, 114, 115>>
      [] name = "randomization" -> <<114, 97, 110, 100, 111, 109, 105, 122, 97, 116, 105, 111, 110>>
      [] name = "main"          -> <<109, 97, 105, 110>>

\* hash = ((hash << 5) - hash) + char; hash = hash | 0
HashChar(hash, char) ==
    LET lo == 31 * hash[2] + char
    IN  <<(31 * hash[1] + (lo \div Half)) % Half, lo % Half>>

RECURSIVE HashChars(_, _, _)
HashChars(hash, codes, i) ==
    IF i > Len(codes) THEN hash
    ELSE HashChars(HashChar(hash, codes[i]), codes, i + 1)

DeriveSeed(master, subsystem) == WAbs(HashChars(WOf(master), CharCodes(subsystem), 1))

NoStream == [present |-> FALSE, state |-> <<0, 0>>, initialSeed |-> <<0, 0>>]

NoStreams == [n \in SubsystemNames |-> NoStream]

\* the streams map after getStream(subsystem)
GetStream(map, master, subsystem) ==
    IF map[subsystem].present THEN map
    ELSE [map EXCEPT ![subsystem] =
              [present |-> TRUE] @@ NewSeededRandom(DeriveSeed(master, subsystem))]

\* one generator state behind every named stream: next() advances them all
StreamNextShared(map, master, subsystem) ==
    LET got == GetStream(map, master, subsystem)
    IN  [n \in SubsystemNames |->
            IF got[n].present THEN [got[n] EXCEPT !.state = NextState(@)] ELSE got[n]]

\* the streams map after getStream(subsystem).next()
StreamNext(map, master, subsystem) ==
    LET got == GetStream(map, master, subsystem)
    IN  [got EXCEPT ![subsystem].state = NextState(@)]

\* the value that getStream(subsystem).next() returns
StreamValue(map, master, subsystem) ==
    NextValue(StreamNext(map, master, subsystem)[subsystem].state)

GetSeedStream(master) ==
    [master        |-> WOf(master),
     physics       |-> DeriveSeed(master, "physics"),
     collision     |-> DeriveSeed(master, "collision"),
     pathfinding   |-> DeriveSeed(master, "pathfinding"),
     sensors       |-> DeriveSeed(master, "sensors"),
     randomization |-> DeriveSeed(master, "randomization")]

\* the streams map after restoreFromStream(stream)
RestoreFromStream(stream) ==
    [n \in SubsystemNames |->
        [present |-> TRUE] @@
        NewSeededRandom(CASE n = "physics"       -> stream.physics
                          [] n = "collision"     -> stream.collision
                          [] n = "pathfinding"   -> stream.pathfinding
                          [] n = "sensors"       -> stream.sensors
                          [] n = "randomization" -> stream.randomization)]

NoSnapshot == [taken |-> FALSE, stream |-> GetSeedStream(0)]

EmptySeedLog ==
    [drawn     |-> [n \in SubsystemNames |-> << >>],   \* values of the original streams
     captureAt |-> [n \in SubsystemNames |-> 0],       \* values drawn before getSeedStream()
     resumed   |-> [n \in SubsystemNames |-> << >>],   \* values of the restored streams
     restored  |-> FALSE]

InitSeed(seeds) ==
    /\ masterSeed \in seeds
    /\ streams = NoStreams
    /\ restoredStreams = NoStreams
    /\ seedSnapshot = NoSnapshot
    /\ seedLog = EmptySeedLog

RECURSIVE SumLen(_, _)
SumLen(f, names) ==
    IF names = {} THEN 0
    ELSE LET n == CHOOSE x \in names : TRUE
         IN  Len(f[n]) + SumLen(f, names \ {n})

\* getStream(subsystem).next() on the original manager, before the capture
Draw(subsystem) ==
    /\ ~seedSnapshot.taken
    /\ Len(seedLog.drawn[subsystem]) < MaxDraws
    /\ streams' = StreamNext(streams, masterSeed, subsystem)
    /\ seedLog' = [seedLog EXCEPT
                      !.drawn[subsystem] = Append(@, StreamValue(streams, masterSeed, subsystem))]
    /\ UNCHANGED <<masterSeed, restoredStreams, seedSnapshot>>

\* s = getSeedStream() on the original manager
CaptureSeedStream ==
    /\ ~seedSnapshot.taken
    /\ seedSnapshot' = [taken |-> TRUE, stream |-> GetSeedStream(masterSeed)]
    /\ seedLog' = [seedLog EXCEPT
                      !.captureAt = [n \in SubsystemNames |-> Len(seedLog.drawn[n])]]
    /\ UNCHANGED <<masterSeed, streams, restoredStreams>>

\* restoreFromStream(s) on a second manager of the same master seed
Restore ==
    /\ seedSnapshot.taken
    /\ ~seedLog.restored
    /\ restoredStreams' = RestoreFromStream(seedSnapshot.stream)
    /\ seedLog' = [seedLog EXCEPT !.restored = TRUE]
    /\ UNCHANGED <<masterSeed, streams, seedSnapshot>>

\* after the restore, one more value of the same named stream on both managers
ResumedDraw(subsystem) ==
    /\ seedLog.restored
    /\ SumLen(seedLog.resumed, SubsystemNames) < MaxResumed
    /\ streams' = StreamNext(streams, masterSeed, subsystem)
    /\ restoredStreams' = StreamNext(restoredStreams, masterSeed, subsystem)
    /\ seedLog' = [seedLog EXCEPT
                      !.drawn[subsystem] = Append(@, StreamValue(streams, masterSeed, subsystem)),
                      !.resumed[subsystem] =
                          Append(@, StreamValue(restoredStreams, masterSeed, subsystem))]
    /\ UNCHANGED <<masterSeed, seedSnapshot>>

(***************************************************************************)
(* SeededRandom.fork.  A generator keeps its subsystem name next to its    *)
(* state and initial seed.                                                 *)
(***************************************************************************)
SeededRandomOf(seed, subsystem) == [subsystem |-> subsystem] @@ NewSeededRandom(seed)

RECURSIVE DecimalCodes(_)
\* the char codes of String(n) for a natural number n
DecimalCodes(n) ==
    IF n < 10 THEN <<48 + n>> ELSE Append(DecimalCodes(n \div 10), 48 + (n % 10))

\* `${this.initialSeed}:${this.subsystem}:${subsystem}`
ForkString(gen, subsystem) ==
    DecimalCodes(gen.initialSeed[1] * Half + gen.initialSeed[2]) \o <<58>>
        \o CharCodes(gen.subsystem) \o <<58>> \o CharCodes(subsystem)

HashString(codes) == WAbs(HashChars(<<0, 0>>, codes, 1))

\* fork that draws the seed of the new generator from the parent
ForkConsuming(gen, subsystem) ==
    [parent |-> [gen EXCEPT !.state = NextState(@)],
     child  |-> SeededRandomOf(NextValue(NextState(gen.state)), subsystem)]

\* fork(subsystem) on gen: the generator it returns, and gen after the call
ForkResult(gen, subsystem) ==
    [parent |-> gen,
     child  |-> SeededRandomOf(HashString(ForkString(gen, subsystem)), subsystem)]

ParentSubsystems == {"main", "physics"}

ForkNames == {"physics", "sensors"}

InitRandom(seeds, subsystems) ==
    /\ \E seed \in seeds, subsystem \in subsystems :
           generators = [parent   |-> SeededRandomOf(WOf(seed), subsystem),
                         twin     |-> SeededRandomOf(WOf(seed), subsystem),
                         children |-> << >>]
    /\ randomLog = [parent |-> << >>, twin |-> << >>, children |-> << >>]

\* next() on the generator and on its twin
ParentNext ==
    /\ Len(randomLog.parent) < MaxDraws
    /\ generators' = [generators EXCEPT !.parent.state = NextState(@),
                                        !.twin.state   = NextState(@)]
    /\ randomLog' = [randomLog EXCEPT
                        !.parent = Append(@, NextValue(NextState(generators.parent.state))),
                        !.twin   = Append(@, NextValue(NextState(generators.twin.state)))]

\* fork(subsystem) on the generator; at is the number of values the parent
\* had produced
ForkChild(subsystem) ==
    /\ Len(generators.children) < MaxForks
    /\ \E r \in {ForkResult(generators.parent, subsystem)} :
           generators' = [generators EXCEPT
                             !.parent   = r.parent,
                             !.children = Append(@, r.child)]
    /\ randomLog' = [randomLog EXCEPT
                        !.children = Append(@, [at     |-> Len(randomLog.parent),
                                                values |-> << >>])]

\* next() on the k-th generator that fork returned
ChildNext(k) ==
    /\ k <= Len(generators.children)
    /\ Len(randomLog.children[k].values) < MaxDraws
    /\ generators' = [generators EXCEPT !.children[k].state = NextState(@)]
    /\ randomLog' = [randomLog EXCEPT
                        !.children[k].values =
                            Append(@, NextValue(NextState(generators.children[k].state)))]

(***************************************************************************)
(* Vec3 (world/transform) on doubles.                                      *)
(***************************************************************************)
Vec3(x, y, z) == [x |-> x, y |-> y, z |-> z]

Vec3Int(x, y, z) == Vec3(NumInt(x), NumInt(y), NumInt(z))

Vec3Zero == Vec3(NumZero(0), NumZero(0), NumZero(0))

Vec3Add(a, b) == Vec3(NumAdd(a.x, b.x), NumAdd(a.y, b.y), NumAdd(a.z, b.z))

Vec3Sub(a, b) == Vec3(NumSub(a.x, b.x), NumSub(a.y, b.y), NumSub(a.z, b.z))

Vec3Mul(v, scalar) == Vec3(NumMul(v.x, scalar), NumMul(v.y, scalar), NumMul(v.z, scalar))

Vec3Div(v, scalar) == Vec3(NumDiv(v.x, scalar), NumDiv(v.y, scalar), NumDiv(v.z, scalar))

Vec3LengthSq(v) == NumAdd(NumAdd(NumMul(v.x, v.x), NumMul(v.y, v.y)), NumMul(v.z, v.z))

Vec3Length(v) == NumSqrt(Vec3LengthSq(v))

\* normalize, len being the length of v
Vec3NormalizeBy(v, len) == IF IsZero(len) THEN Vec3Zero ELSE Vec3Div(v, len)

Vec3Normalize(v) == Vec3NormalizeBy(v, Vec3Length(v))

(***************************************************************************)
(* The integrators.  integrate(state, dt) returns the new position and     *)
(* velocity; the Verlet integrator also reads and writes its field         *)
(* prevAcceleration, which the model passes in and returns.                *)
(***************************************************************************)
EulerIntegrate(state, dt) ==
    [velocity |-> Vec3Add(state.velocity, Vec3Mul(state.acceleration, dt)),
     position |-> Vec3Add(state.position, Vec3Mul(state.velocity, dt))]

\* the result of the semi-implicit integrator, given the new velocity
SemiImplicitEulerResult(state, dt, newVelocity) ==
    [velocity |-> newVelocity,
     position |-> Vec3Add(state.position, Vec3Mul(newVelocity, dt))]

SemiImplicitEulerIntegrate(state, dt) ==
    SemiImplicitEulerResult(state, dt,
                            Vec3Add(state.velocity, Vec3Mul(state.acceleration, dt)))

VerletIntegrate(state, dt, prevAcceleration) ==
    [velocity |-> Vec3Add(state.velocity,
                          Vec3Mul(Vec3Add(prevAcceleration, state.acceleration),
                                  NumMul(dt, NumLit(5, 10)))),
     position |-> Vec3Add(Vec3Add(state.position, Vec3Mul(state.velocity, dt)),
                          Vec3Mul(state.acceleration,
                                  NumMul(NumMul(dt, dt), NumLit(5, 10))))]

\* RK4: (k1 + 2 * k2 + 2 * k3 + k4) * (1 / 6)
RK4Weighted(k1, k2, k3, k4) ==
    Vec3Mul(Vec3Add(Vec3Add(k1, Vec3Mul(k2, NumInt(2))),
                    Vec3Add(Vec3Mul(k3, NumInt(2)), k4)), NumLit(1, 6))

\* RK4: the result, given the velocity slopes and the first position slope
RK4Result(state, dt, k1v, k1p, k2v, k3v, k4v) ==
    [velocity |-> Vec3Add(state.velocity, RK4Weighted(k1v, k2v, k3v, k4v)),
     position |->
         Vec3Add(state.position,
                 RK4Weighted(k1p,
                             Vec3Mul(Vec3Add(state.velocity,
                                             Vec3Mul(k1v, NumLit(5, 10))), dt),
                             Vec3Mul(Vec3Add(state.velocity,
                                             Vec3Mul(k2v, NumLit(5, 10))), dt),
                             Vec3Mul(Vec3Add(state.velocity, k3v), dt)))]

RK4Integrate(state, dt) ==
    RK4Result(state, dt,
              Vec3Mul(state.acceleration, dt), Vec3Mul(state.velocity, dt),
              Vec3Mul(state.acceleration, dt), Vec3Mul(state.acceleration, dt),
              Vec3Mul(state.acceleration, dt))

IntegratorTypes == {"euler", "semi-implicit-euler", "verlet", "rk4"}

\* the integrator createIntegrator(type) returns, applied: the result of
\* integrate() and the integrator's prevAcceleration after the call
Integrate(type, state, dt, prevAcceleration) ==
    CASE type = "euler"  -> [result |-> EulerIntegrate(state, dt),
                             prevAcceleration |-> prevAcceleration]
      [] type = "verlet" -> [result |-> VerletIntegrate(state, dt, prevAcceleration),
                             prevAcceleration |-> state.acceleration]
      [] type = "rk4"    -> [result |-> RK4Integrate(state, dt),
                             prevAcceleration |-> prevAcceleration]
      [] OTHER           -> [result |-> SemiImplicitEulerIntegrate(state, dt),
                             prevAcceleration |-> prevAcceleration]

(***************************************************************************)
(* SimulationRuntime.  The registry is a Map: a sequence of entities in    *)
(* insertion order.                                                        *)
(***************************************************************************)
Timestep == NumLit(16, 1000)

Gravity == Vec3(NumInt(0), NumLit(-981, 100), NumInt(0))

\* an optional value: << >> for undefined, <<v>> for the value v
OrElse(optional, default) == IF optional = << >> THEN default ELSE optional[1]

\* createEntity(descriptor)
CreateEntity(descriptor) ==
    [id          |-> descriptor.id,
     type        |-> descriptor.type,
     status      |-> "idle",
     position    |-> descriptor.position,
     velocity    |-> Vec3Zero,
     maxVelocity |-> descriptor.maxVelocity,
     target      |-> << >>]

\* physicsStep: the velocity clamped to the entity's maximum
ClampVelocity(velocity, maxVel) ==
    IF NumLess(maxVel, Vec3Length(velocity))
    THEN Vec3Mul(Vec3Normalize(velocity), maxVel)
    ELSE velocity

\* physicsStep: the entity with its new position, velocity and status
Moved(entity, position, velocity) ==
    [entity EXCEPT
        !.position = position,
        !.velocity = velocity,
        !.status   = IF NumLess(NumLit(1, 100), Vec3LengthSq(velocity))
                     THEN "moving" ELSE "idle"]

\* physicsStep: the entity after the integrator returned step
Integrated(entity, step) ==
    [entity |-> Moved(entity, step.result.position,
                      ClampVelocity(Vec3Mul(step.result.velocity, NumLit(99, 100)),
                                    OrElse(entity.maxVelocity, NumInt(100)))),
     prevAcceleration |-> step.prevAcceleration]

\* physicsStep: gravity does not act on a drone
Acceleration(entity, gravity) ==
    Vec3(gravity.x, IF entity.type = "drone" THEN NumZero(0) ELSE gravity.y, gravity.z)

\* physicsStep for one entity that is neither disabled nor an obstacle
PhysicsEntity(entity, type, dt, prevAcceleration) ==
    Integrated(entity,
               Integrate(type, [position     |-> entity.position,
                                velocity     |-> entity.velocity,
                                acceleration |-> Acceleration(entity, Gravity)],
                         dt, prevAcceleration))

\* physicsStep passing over disabled entities only
SkippedWhenDisabled(entity) == entity.status = "disabled"

\* physicsStep: the entities the loop passes over (the two `continue`s)
Skipped(entity) == entity.status = "disabled" \/ entity.type = "obstacle"

RECURSIVE PhysicsStep(_, _, _, _, _)
\* physicsStep from the i-th entity of the registry on
PhysicsStep(entities, i, type, dt, prevAcceleration) ==
    LET Rest(one) == PhysicsStep([entities EXCEPT ![i] = one.entity], i + 1, type, dt,
                                 one.prevAcceleration)
    IN  IF i > Len(entities)
        THEN [entities |-> entities, prevAcceleration |-> prevAcceleration]
        ELSE IF Skipped(entities[i])
        THEN PhysicsStep(entities, i + 1, type, dt, prevAcceleration)
        ELSE Rest(PhysicsEntity(entities[i], type, dt, prevAcceleration))

\* handleMoveTo
HandleMoveTo(entity, target) ==
    IF target = << >> THEN entity
    ELSE LET direction == Vec3Normalize(Vec3Sub(target[1], entity.position))
             speed     == OrElse(entity.maxVelocity, NumInt(10))
         IN  [entity EXCEPT !.velocity = Vec3Mul(direction, speed),
                            !.status   = "moving",
                            !.target   = target]

\* the cases follow_path and default of the switch leave the entity alone;
\* with UnhandledStops they stop it
UnhandledStops(entity, action) == [entity EXCEPT !.velocity = Vec3Zero, !.status = "idle"]

Unhandled(entity, action) == entity

\* the switch of processActions, for the entity the action names
ApplyAction(entity, action) ==
    CASE action.type = "move_to"      -> HandleMoveTo(entity, action.target)
      [] action.type = "set_velocity" ->
             IF action.velocity = << >> THEN entity
             ELSE [entity EXCEPT !.velocity = action.velocity[1], !.status = "moving"]
      [] action.type = "stop"         ->
             [entity EXCEPT !.velocity = Vec3Zero, !.status = "idle"]
      [] OTHER                        -> Unhandled(entity, action)

\* this.entities.get(entityId): the place of the entity in the registry, 0
\* for undefined; with FindEntityOrFirst an unknown id finds the first entity
FindEntityOrFirst(entities, entityId) ==
    IF SeqIndexOf(entities, entityId, 1) = 0 /\ entities /= << >> THEN 1
    ELSE SeqIndexOf(entities, entityId, 1)

FindEntity(entities, entityId) == SeqIndexOf(entities, entityId, 1)

RECURSIVE ProcessActions(_, _, _)
\* processActions from the k-th action on
ProcessActions(entities, actions, k) ==
    IF k > Len(actions) THEN entities
    ELSE LET i == FindEntity(entities, actions[k].entityId)
         IN  IF i = 0 THEN ProcessActions(entities, actions, k + 1)
             ELSE ProcessActions([entities EXCEPT ![i] = ApplyAction(entities[i], actions[k])],
                                 actions, k + 1)

\* what processActions sends to logger.debug: a message for every follow_path
\* action on a registered entity (here the action), if a logger is attached
DebugMessages(entities, actions, logger) ==
    IF ~logger THEN << >>
    ELSE SelectSeq(actions, LAMBDA a : a.type = "follow_path"
                                       /\ FindEntity(entities, a.entityId) /= 0)

Vec3IsNaN(v) == IsNaN(v.x) \/ IsNaN(v.y) \/ IsNaN(v.z)

Vec3IsFinite(v) == v.x.exp /= 1024 /\ v.y.exp /= 1024 /\ v.z.exp /= 1024

\* checkStability: hasNaN of the states validateStability passes, the
\* entities not disabled with acceleration zero
HasNaN(entities) ==
    \E i \in 1..Len(entities) :
        /\ entities[i].status /= "disabled"
        /\ (Vec3IsNaN(entities[i].position) \/ Vec3IsNaN(entities[i].velocity))

\* checkStability: hasInfinity
HasInfinity(entities) ==
    \E i \in 1..Len(entities) :
        /\ entities[i].status /= "disabled"
        /\ ~(Vec3IsFinite(entities[i].position) /\ Vec3IsFinite(entities[i].velocity))

\* checkStability: highestVel <= maxVel, highestVel being the largest velocity
\* magnitude that compares greater than the ones before it (a NaN never does)
VelocityOk(entities) ==
    \A i \in 1..Len(entities) :
        \/ entities[i].status = "disabled"
        \/ ~NumLess(NumInt(1000), Vec3Length(entities[i].velocity))

\* stable when only the magnitudes are looked at
StableMagnitudes(velocityOk, hasNaN, hasInfinity) == velocityOk

\* checkStability: stable; the accelerations are zero
Stable(velocityOk, hasNaN, hasInfinity) == velocityOk /\ ~hasNaN /\ ~hasInfinity

\* validateStability returns (TRUE) or throws DivergenceError (FALSE)
ValidateStability(entities) ==
    Stable(VelocityOk(entities), HasNaN(entities), HasInfinity(entities))

(***************************************************************************)
(* The hashes.                                                             *)
(***************************************************************************)
\* hashNumber: the xor of the two int32 halves of the binary64 representation
HashNumber(value) ==
    IF IsZero(value) THEN <<value.sign * (Half \div 2), 0>>
    ELSE IF IsInf(value) THEN <<value.sign * (Half \div 2) + 2047 * 16, 0>>
    ELSE IF IsNaN(value) THEN <<2047 * 16 + 8, 0>>
    ELSE WXor(<<BigBits(value.mant, 16), BigBits(value.mant, 0)>>,
              <<value.sign * (Half \div 2) + (value.exp + 52 + 1023) * 16
                    + (BigBits(value.mant, 48) - 16),
                BigBits(value.mant, 32)>>)

\* a * k as int32, for 0 <= k < 2^15
WMulSmall(a, k) ==
    LET lo == k * a[2]
    IN  <<(k * a[1] + (lo \div Half)) % Half, lo % Half>>

HashVector3(v) ==
    WXor(WXor(WMulSmall(HashNumber(v.x), 31), WMulSmall(HashNumber(v.y), 17)),
         HashNumber(v.z))

RECURSIVE CombineFrom(_, _, _)
CombineFrom(result, hashes, i) ==
    IF i > Len(hashes) THEN result
    ELSE CombineFrom(WAdd(WMulSmall(result, 31), hashes[i]), hashes, i + 1)

CombineHashes(hashes) == CombineFrom(<<0, 0>>, hashes, 1)

RECURSIVE SortById(_)
\* Array.sort by id: the ids of a Map differ, and an id is its rank
SortById(entities) ==
    IF entities = << >> THEN << >>
    ELSE LET m == CHOOSE i \in 1..Len(entities) :
                      \A j \in 1..Len(entities) : entities[i].id <= entities[j].id
         IN  <<entities[m]>> \o SortById(RemoveAt(entities, m))

ComputeStepHash(step, entities) ==
    LET sorted == SortById(entities)
    IN  CombineHashes(<<WOf(step)>> \o
            [k \in 1..(2 * Len(sorted)) |->
                IF k % 2 = 1 THEN HashVector3(sorted[(k + 1) \div 2].position)
                ELSE HashVector3(sorted[k \div 2].velocity)])

HexChars == <<"0", "1", "2", "3", "4", "5", "6", "7",
              "8", "9", "a", "b", "c", "d", "e", "f">>

RECURSIVE ToHex(_)
\* Number.toString(16) of a natural number below 2^16
ToHex(n) == IF n < 16 THEN <<HexChars[n + 1]>> ELSE ToHex(n \div 16) \o <<HexChars[(n % 16) + 1]>>

\* no padding at all
PadNone(str, n) == str

PadStart(str, n) == [i \in 1..(n - Len(str)) |-> "0"] \o str

\* computeFinalHash: the string, as the sequence of its characters
ComputeFinalHash(stepHashes) ==
    LET hash == WAbs(CombineHashes(stepHashes))
    IN  PadStart(IF hash[1] = 0 THEN ToHex(hash[2])
                 ELSE ToHex(hash[1]) \o PadStart(ToHex(hash[2]), 4), 16)

\* step hashes: int32 values, among them the smallest and the largest
StepHashes ==
    {<<0, 0>>, <<0, 1>>, <<Half - 1, Half - 1>>, <<Half \div 2, 0>>,
     <<Half \div 2 - 1, Half - 1>>, <<4660, 22136>>}

\* the sequences over S of length at most n
SeqsUpTo(S, n) == UNION {[1..k -> S] : k \in 0..n}

(***************************************************************************)
(* Two sessions.  Session 1 is driven freely; session 2 is built with the  *)
(* same configuration, is given the descriptors of session 1 (in any       *)
(* order) and then the action lists of session 1, tick by tick.            *)
(***************************************************************************)
Sessions == {1, 2}

\* new SimulationRuntime(config), with its DeterministicRuntime
NewSession ==
    [entities       |-> << >>,
     initialized    |-> FALSE,
     currentStep    |-> 0,
     simulationTime |-> NumInt(0),
     stepHashes     |-> << >>]

DefaultConfig ==
    [integrator |-> "semi-implicit-euler", strictMode |-> FALSE, logger |-> FALSE,
     timestep |-> Timestep, maxSteps |-> 10000]

Configs ==
    {[DefaultConfig EXCEPT !.integrator = t, !.strictMode = TRUE] : t \in IntegratorTypes}
        \cup {DefaultConfig}

\* the default integrator, strict mode on and off, with and without a logger
LoggerConfigs ==
    {[DefaultConfig EXCEPT !.strictMode = s, !.logger = l] : s \in BOOLEAN, l \in BOOLEAN}

Descriptors ==
    {[id |-> 1, type |-> "drone", position |-> Vec3Int(0, 10, 0),
      maxVelocity |-> <<NumInt(20)>>],
     [id |-> 2, type |-> "robot", position |-> Vec3Int(3, 0, 0),
      maxVelocity |-> << >>]}

\* a static obstacle, entity 3
ObstacleDescriptor ==
    [id |-> 3, type |-> "obstacle", position |-> Vec3Int(5, 0, 0), maxVelocity |-> << >>]

Action(type, entityId, target, velocity) ==
    [type |-> type, entityId |-> entityId, target |-> target, velocity |-> velocity]

ActionLists ==
    {<< >>,
     <<Action("set_velocity", 1, << >>, <<Vec3Int(30, 0, 0)>>),
       Action("move_to", 2, <<Vec3Int(3, 0, 4)>>, << >>),
       Action("follow_path", 1, << >>, << >>),
       Action("stop", 3, << >>, << >>)>>}

\* action lists that ask for more than the maximum velocity: along an axis and
\* obliquely for the drone (maximum 20), for the robot (no maximum given), and
\* by move_to
CapActionLists ==
    {<< >>,
     <<Action("set_velocity", 1, << >>, <<Vec3Int(30, 0, 0)>>),
       Action("move_to", 2, <<Vec3Int(3, 0, 4)>>, << >>)>>,
     <<Action("set_velocity", 1, << >>, <<Vec3Int(-50, -43, 3)>>)>>,
     <<Action("set_velocity", 2, << >>, <<Vec3Int(300, 0, 0)>>),
       Action("set_velocity", 1, << >>, <<Vec3Int(12, 0, 5)>>)>>}

EmptySimLog ==
    [lists  |-> << >>,                       \* the action lists given to session 1
     hashes |-> [s \in Sessions |-> << >>],  \* getDeterministicHash() after each step()
     thrown |-> [s \in Sessions |-> << >>],  \* whether that step() threw DivergenceError
     debug  |-> << >>,                       \* what processActions logged, session 1
     resets |-> 0]                           \* the reset() calls on session 1

InitSim(configs) ==
    /\ config \in configs
    /\ sessions = [s \in Sessions |-> NewSession]
    /\ integrators = [s \in Sessions |-> Vec3Zero]
    /\ simLog = EmptySimLog

\* one integrator for every session
SharedIntegrator(s) == 1

\* the integrator of a session: each runtime creates its own
IntegratorOf(s) == s

EntityIds(s) == {sessions[s].entities[i].id : i \in 1..Len(sessions[s].entities)}

\* Map.set
RegistrySet(entities, entity) ==
    LET i == SeqIndexOf(entities, entity.id, 1)
    IN  IF i = 0 THEN Append(entities, entity) ELSE [entities EXCEPT ![i] = entity]

\* addEntity(descriptor) on session s, before its first tick
AddEntity(s, descriptor) ==
    /\ simLog.hashes[s] = << >>
    /\ descriptor.id \notin EntityIds(s)
    /\ s = 1 => simLog.lists = << >>
    /\ s = 2 => descriptor.id \in EntityIds(1)
    /\ sessions' = [sessions EXCEPT
                       ![s].entities = RegistrySet(@, CreateEntity(descriptor))]
    /\ UNCHANGED <<config, integrators, simLog>>

\* recordStepHash(hash) without the validateDeterminism test
RecordStepHashAlways(stepHashes, validateDeterminism, hash) == Append(stepHashes, hash)

\* recordStepHash(hash): if (this.config.validateDeterminism) this.stepHashes.push(hash)
RecordStepHash(stepHashes, validateDeterminism, hash) ==
    IF validateDeterminism THEN Append(stepHashes, hash) ELSE stepHashes

\* step(actions) with the counters updated before validateStability
ValidatedAfterCount(session, cfg, moved, step) ==
    [session |->
        [entities       |-> moved.entities,
         initialized    |-> TRUE,
         currentStep    |-> step,
         simulationTime |-> NumAdd(session.simulationTime, cfg.timestep),
         stepHashes     |->
             IF cfg.strictMode /\ ValidateStability(moved.entities)
             THEN Append(session.stepHashes, ComputeStepHash(step, moved.entities))
             ELSE session.stepHashes],
     prevAcceleration |-> moved.prevAcceleration,
     thrown |-> cfg.strictMode /\ ~ValidateStability(moved.entities)]

\* step(actions) after processActions and physicsStep: validateStability,
\* the simulation time and the step hash
Validated(session, cfg, moved, step) ==
    IF cfg.strictMode /\ ~ValidateStability(moved.entities)
    THEN [session |-> [session EXCEPT !.entities = moved.entities,
                                      !.initialized = TRUE],
          prevAcceleration |-> moved.prevAcceleration,
          thrown |-> TRUE]
    ELSE [session |->
             [entities       |-> moved.entities,
              initialized    |-> TRUE,
              currentStep    |-> step,
              simulationTime |-> NumAdd(session.simulationTime, cfg.timestep),
              stepHashes     |->
                  RecordStepHash(session.stepHashes, cfg.strictMode,
                                 ComputeStepHash(step, moved.entities))],
          prevAcceleration |-> moved.prevAcceleration,
          thrown |-> FALSE]

\* step(actions): the session and the integrator's prevAcceleration after
\* the call, and whether it threw DivergenceError
StepResult(session, actions, cfg, prevAcceleration) ==
    Validated(session, cfg,
              PhysicsStep(ProcessActions(session.entities, actions, 1), 1,
                          cfg.integrator, cfg.timestep, prevAcceleration),
              session.currentStep + 1)

\* step(actions) on session s; lists are the action lists given to session 1
StepSession(s, actions, lists) ==
    \E r \in {StepResult(sessions[s], actions, config, integrators[IntegratorOf(s)])} :
        /\ sessions' = [sessions EXCEPT ![s] = r.session]
        /\ integrators' = [integrators EXCEPT ![IntegratorOf(s)] = r.prevAcceleration]
        /\ simLog' = [simLog EXCEPT
                         !.lists     = lists,
                         !.hashes[s] = Append(@, ComputeFinalHash(r.session.stepHashes)),
                         !.thrown[s] = Append(@, r.thrown),
                         !.debug     = IF s = 1
                                       THEN @ \o DebugMessages(sessions[s].entities,
                                                               actions, config.logger)
                                       ELSE @]
        /\ UNCHANGED config

\* a tick of session 1, with any action list
Step(actions) ==
    /\ Len(simLog.lists) < MaxTicks
    /\ StepSession(1, actions, Append(simLog.lists, actions))

\* reset() on session 1, before session 2 is used: the registry, the counters
\* and the recorded step hashes are cleared; the integrator is not touched.
\* The log starts again.
Reset ==
    /\ simLog.resets < MaxResets
    /\ sessions[2] = NewSession
    /\ sessions' = [sessions EXCEPT ![1] = [@ EXCEPT !.entities       = << >>,
                                                     !.currentStep    = 0,
                                                     !.simulationTime = NumInt(0),
                                                     !.stepHashes     = << >>]]
    /\ simLog' = [simLog EXCEPT !.lists     = << >>,
                                !.hashes[1] = << >>,
                                !.thrown[1] = << >>,
                                !.resets    = @ + 1]
    /\ UNCHANGED <<config, integrators>>

\* getEntity(id): << >> for undefined
GetEntity(session, id) == SelectSeq(session.entities, LAMBDA e : e.id = id)

GetEntityCount(session) == Len(session.entities)

\* getState(): the snapshot, without its timestamp
GetState(session) ==
    [version    |-> 3,
     step       |-> session.currentStep,
     entities   |-> session.entities,
     worldState |-> [time |-> session.simulationTime,
                     activeEntityCount |-> Len(session.entities)]]

InitAsync ==
    /\ pending = << >>
    /\ asyncLog = [calls |-> 0, returned |-> << >>]

\* step(actions) from `this.processActions(actions)` to its return, for the
\* call numbered n of calls made: the tick, and what the caller's promise
\* settles with
StepBody(n, actions, calls) ==
    /\ StepSession(1, actions, Append(simLog.lists, actions))
    /\ asyncLog' = [calls    |-> calls,
                    returned |-> Append(asyncLog.returned,
                        [call   |-> n,
                         step   |-> GetState(sessions'[1]).step,
                         thrown |-> simLog'.thrown[1][Len(simLog'.thrown[1])]])]

\* await initialize(config) on session 1, from the caller
Initialize ==
    /\ ~sessions[1].initialized
    /\ sessions' = [sessions EXCEPT ![1].initialized = TRUE]
    /\ UNCHANGED <<config, integrators, simLog, pending, asyncLog>>

\* step(actions) is called on session 1 and runs up to its first await: when
\* the session is not initialized, initialize() sets the flag and the call is
\* suspended at `await`; otherwise the whole tick runs before the call returns
\* its promise
CallStep(actions) ==
    /\ asyncLog.calls < MaxTicks
    /\ IF ~sessions[1].initialized
       THEN /\ sessions' = [sessions EXCEPT ![1].initialized = TRUE]
            /\ pending' = Append(pending, [call |-> asyncLog.calls + 1, actions |-> actions])
            /\ asyncLog' = [asyncLog EXCEPT !.calls = @ + 1]
            /\ UNCHANGED <<config, integrators, simLog>>
       ELSE /\ StepBody(asyncLog.calls + 1, actions, asyncLog.calls + 1)
            /\ UNCHANGED pending

\* the caller has yielded: the continuation of the first suspended step() runs
ResumeStep ==
    /\ pending /= << >>
    /\ StepBody(pending[1].call, pending[1].actions, asyncLog.calls)
    /\ pending' = Tail(pending)

(***************************************************************************)
(* References.  An object literal or spread allocates an object; a field   *)
(* assignment makes the field refer to another object.  heap.objects[a] is *)
(* the Vector3 at address a, heap.refs[i] the addresses the i-th entity of *)
(* session 1 holds in _transform.position and _velocity.                   *)
(***************************************************************************)
InitHeap ==
    heap = [objects     |-> << >>,
            refs        |-> << >>,
            descriptors |-> << >>,   \* the descriptors passed to addEntity: id,
                                     \* the address of transform.position and
                                     \* the position it held at the call
            snapshots   |-> << >>,   \* the snapshots returned: per entity the
                                     \* addresses of position and velocity, and
                                     \* the values and the status they held
            taken       |-> 0,       \* getState() calls made by the caller
            removed     |-> 0]       \* removeEntity calls that returned true

\* entity.ts:29, 33-41  new Entity(descriptor): { ...descriptor.transform }
\* copies the reference to the position object at address a; _velocity is a
\* new object
NewEntity(h, a) ==
    [h EXCEPT !.objects = Append(@, Vec3Zero),
              !.refs    = Append(@, [position |-> a, velocity |-> Len(h.objects) + 1])]

\* setPosition writing into the object the entity refers to
SetPositionInPlace(h, i, position) ==
    [h EXCEPT !.objects[h.refs[i].position] = position]

\* entity.ts:122-124  this._transform.position = { ...position }
SetPosition(h, i, position) ==
    [h EXCEPT !.objects          = Append(@, position),
              !.refs[i].position = Len(h.objects) + 1]

\* entity.ts:130-132  this._velocity = { ...velocity }
SetVelocity(h, i, velocity) ==
    [h EXCEPT !.objects          = Append(@, velocity),
              !.refs[i].velocity = Len(h.objects) + 1]

\* entity.ts:87-97  getState() of the i-th entity: { ...this._transform } copies
\* the reference to the position object, { ...this._velocity } is a new object
EntityGetState(h, entity, i, k) ==
    [id       |-> entity.id,
     position |-> h.refs[i].position,
     velocity |-> Len(h.objects) + k,
     status   |-> entity.status,
     held     |-> [position |-> h.objects[h.refs[i].position],
                   velocity |-> h.objects[h.refs[i].velocity],
                   status   |-> entity.status]]

\* runtime.ts:100-118, state.ts:73-87  getState(): the snapshot holds the
\* EntityState objects entity.getState() returned
TakeSnapshot(h, entities) ==
    [h EXCEPT !.objects   = @ \o [i \in 1..Len(entities) |-> h.objects[h.refs[i].velocity]],
              !.snapshots = Append(@, [i \in 1..Len(entities) |->
                                          EntityGetState(h, entities[i], i, i)])]

RECURSIVE WriteBack(_, _, _, _, _)
\* the setVelocity and setPosition calls of a tick from the i-th entity on:
\* before, acted and after are the registry before the tick, after
\* processActions and after physicsStep.  An entity gets a velocity object
\* when an action set its velocity or the pass integrated it, and a position
\* object when the pass integrated it
WriteBack(h, before, acted, after, i) ==
    IF i > Len(after) THEN h
    ELSE WriteBack(
             IF Skipped(acted[i])
             THEN IF acted[i].velocity = before[i].velocity THEN h
                  ELSE SetVelocity(h, i, after[i].velocity)
             ELSE SetPosition(SetVelocity(h, i, after[i].velocity), i, after[i].position),
             before, acted, after, i + 1)

\* addEntity(descriptor) on session 1, the descriptor built by the caller
AddEntityRefs(descriptor) ==
    /\ Len(heap.descriptors) < MaxDescriptors
    /\ AddEntity(1, descriptor)
    /\ heap' = NewEntity([heap EXCEPT
                             !.objects     = Append(@, descriptor.position),
                             !.descriptors = Append(@, [id       |-> descriptor.id,
                                                        position |-> Len(heap.objects) + 1,
                                                        held     |-> descriptor.position])],
                         Len(heap.objects) + 1)

\* step(actions) on session 1; a call that returns, returns getState()
StepRefs(actions) ==
    /\ Step(actions)
    /\ \E h \in {WriteBack(heap, sessions[1].entities,
                          ProcessActions(sessions[1].entities, actions, 1),
                          sessions'[1].entities, 1)} :
           heap' = IF simLog'.thrown[1][Len(simLog'.thrown[1])] THEN h
                   ELSE TakeSnapshot(h, sessions'[1].entities)

\* getState() on session 1, from the caller
GetStateRefs ==
    /\ heap.taken < MaxSnapshots
    /\ heap' = [TakeSnapshot(heap, sessions[1].entities) EXCEPT !.taken = @ + 1]
    /\ UNCHANGED <<sessions, config, integrators, simLog>>

\* removeEntity(id) on session 1 with the entity kept and disabled
RemoveEntityDisabling(id) ==
    /\ sessions' = [sessions EXCEPT
                       ![1].entities = [i \in 1..Len(@) |->
                           IF @[i].id = id THEN [@[i] EXCEPT !.status = "disabled"] ELSE @[i]]]
    /\ UNCHANGED <<config, integrators, simLog>>

\* removeEntity(id) on session 1: this.entities.delete(id)
RemoveEntity(id) ==
    /\ sessions' = [sessions EXCEPT
                       ![1].entities = SelectSeq(@, LAMBDA e : e.id /= id)]
    /\ UNCHANGED <<config, integrators, simLog>>

\* removeEntity(id) on session 1
RemoveEntityRefs(id) ==
    /\ heap.removed < MaxRemoved
    /\ RemoveEntity(id)
    /\ heap' = [heap EXCEPT
                   !.removed = @ + 1,
                   !.refs = [i \in 1..Len(sessions'[1].entities) |->
                                IF \E j \in 1..i : sessions[1].entities[j].id = id
                                THEN heap.refs[i + 1] ELSE heap.refs[i]]]

\* setStatus('disabled') on the entity addEntity returned, session 1
Disable(id) ==
    /\ \E i \in 1..Len(sessions[1].entities) :
           /\ sessions[1].entities[i].id = id
           /\ sessions[1].entities[i].status /= "disabled"
           /\ sessions' = [sessions EXCEPT ![1].entities[i].status = "disabled"]
    /\ UNCHANGED <<config, integrators, simLog>>

\* the action types processActions has no case for, and follow_path
UnhandledTypes == {"follow_path", "set_acceleration", "apply_force", "apply_torque", "custom"}

\* action lists with actions on entity 3, which is never added, actions of
\* the unhandled types, and a velocity that is not a number
MoreActionLists ==
    {<<Action("stop", 3, << >>, << >>),
       Action("set_velocity", 1, << >>, <<Vec3Int(0, 3, 4)>>),
       Action("move_to", 3, <<Vec3Int(3, 0, 4)>>, << >>),
       Action("set_velocity", 3, << >>, <<Vec3Int(1, 0, 0)>>),
       Action("stop", 2, << >>, << >>)>>,
     <<Action("follow_path", 1, << >>, << >>),
       Action("set_acceleration", 1, << >>, <<Vec3Int(1, 0, 0)>>),
       Action("apply_force", 2, <<Vec3Int(3, 0, 4)>>, << >>),
       Action("move_to", 2, <<Vec3Int(0, 0, 4)>>, << >>),
       Action("apply_torque", 2, << >>, << >>),
       Action("custom", 1, << >>, << >>),
       Action("follow_path", 3, << >>, << >>)>>,
     <<Action("set_velocity", 2, << >>, <<Vec3(NumInt(1), NumNaN, NumInt(0))>>)>>}

\* the next tick of session 2, with the action list session 1 was given
Replay ==
    /\ Len(simLog.hashes[2]) < Len(simLog.lists)
    /\ EntityIds(2) = EntityIds(1)
    /\ StepSession(2, simLog.lists[Len(simLog.hashes[2]) + 1], simLog.lists)

\* the next tick of session 2, which holds some of the entities of session 1,
\* with the action list session 1 was given
ReplayApart ==
    /\ Len(simLog.hashes[2]) < Len(simLog.lists)
    /\ EntityIds(2) /= {}
    /\ StepSession(2, simLog.lists[Len(simLog.hashes[2]) + 1], simLog.lists)

(***************************************************************************)
(* Contact resolution: resolveContact(bodyA, bodyB, contact).              *)
(***************************************************************************)
Vec3Dot(a, b) == NumAdd(NumAdd(NumMul(a.x, b.x), NumMul(a.y, b.y)), NumMul(a.z, b.z))

\* Math.max of two numbers
NumMax(a, b) ==
    IF IsNaN(a) \/ IsNaN(b) THEN NumNaN
    ELSE IF NumLess(a, b) THEN b
    ELSE IF NumLess(b, a) THEN a
    ELSE IF IsZero(a) /\ b.sign = 0 THEN b ELSE a

\* Math.min of two numbers
NumMin(a, b) ==
    IF IsNaN(a) \/ IsNaN(b) THEN NumNaN
    ELSE IF NumLess(a, b) THEN a
    ELSE IF NumLess(b, a) THEN b
    ELSE IF IsZero(a) /\ b.sign = 1 THEN b ELSE a

\* the returns that apply no impulse
Unresolved(bodyA, bodyB) ==
    [bodyA   |-> [velocity |-> bodyA.velocity, position |-> bodyA.position],
     bodyB   |-> [velocity |-> bodyB.velocity, position |-> bodyB.position],
     impulse |-> NumZero(0)]

\* the velocities are separating by more than one unit
SeparatingFast(velocityAlongNormal) == NumLess(NumInt(1), velocityAlongNormal)

\* the velocities are separating
Separating(velocityAlongNormal) == NumLess(NumZero(0), velocityAlongNormal)

\* the impulse scalar with the larger of the two restitutions
ImpulseScalarMaxRestitution(bodyA, bodyB, velocityAlongNormal, inverseMassSum) ==
    NumDiv(NumMul(NumNeg(NumAdd(NumInt(1), NumMax(bodyA.restitution, bodyB.restitution))),
                  velocityAlongNormal),
           inverseMassSum)

\* the impulse scalar j
ImpulseScalar(bodyA, bodyB, velocityAlongNormal, inverseMassSum) ==
    NumDiv(NumMul(NumNeg(NumAdd(NumInt(1), NumMin(bodyA.restitution, bodyB.restitution))),
                  velocityAlongNormal),
           inverseMassSum)

\* the position correction
Correction(normal, penetration, inverseMassSum) ==
    Vec3Mul(normal,
            NumMul(NumDiv(NumMax(NumSub(penetration, NumLit(1, 100)), NumInt(0)),
                          inverseMassSum),
                   NumLit(8, 10)))

\* the result once the impulse j*normal and the correction are known
Resolved(bodyA, bodyB, j, impulse, correction) ==
    [bodyA   |-> [velocity |-> Vec3Sub(bodyA.velocity, Vec3Mul(impulse, bodyA.inverseMass)),
                  position |-> IF bodyA.isStatic THEN bodyA.position
                               ELSE Vec3Sub(bodyA.position,
                                            Vec3Mul(correction, bodyA.inverseMass))],
     bodyB   |-> [velocity |-> Vec3Add(bodyB.velocity, Vec3Mul(impulse, bodyB.inverseMass)),
                  position |-> IF bodyB.isStatic THEN bodyB.position
                               ELSE Vec3Add(bodyB.position,
                                            Vec3Mul(correction, bodyB.inverseMass))],
     impulse |-> j]

\* resolveContact after the test of the two isStatic flags
ResolveMoving(bodyA, bodyB, contact, velocityAlongNormal, inverseMassSum, j) ==
    IF Separating(velocityAlongNormal) \/ IsZero(inverseMassSum)
    THEN Unresolved(bodyA, bodyB)
    ELSE Resolved(bodyA, bodyB, j, Vec3Mul(contact.normal, j),
                  Correction(contact.normal, contact.penetration, inverseMassSum))

ResolveContact(bodyA, bodyB, contact) ==
    IF bodyA.isStatic /\ bodyB.isStatic THEN Unresolved(bodyA, bodyB)
    ELSE ResolveMoving(bodyA, bodyB, contact,
             Vec3Dot(Vec3Sub(bodyB.velocity, bodyA.velocity), contact.normal),
             NumAdd(bodyA.inverseMass, bodyB.inverseMass),
             ImpulseScalar(bodyA, bodyB,
                 Vec3Dot(Vec3Sub(bodyB.velocity, bodyA.velocity), contact.normal),
                 NumAdd(bodyA.inverseMass, bodyB.inverseMass)))

\* a PhysicsBody; a static body does not move and has inverse mass 0
PhysicsBody(position, velocity, inverseMass, restitution, isStatic) ==
    [position |-> position, velocity |-> velocity,
     inverseMass |-> IF isStatic THEN NumInt(0) ELSE inverseMass,
     restitution |-> restitution, isStatic |-> isStatic]

BodiesA ==
    {PhysicsBody(Vec3Int(0, 0, 0), v, NumInt(1), NumLit(2, 10), st) :
        v \in {Vec3Int(0, 0, 0), Vec3Int(1, 0, 0), Vec3Int(-1, 2, 0)},
        st \in BOOLEAN}

BodiesB ==
    {PhysicsBody(Vec3Int(1, 0, 0), v, NumLit(1, 2), NumLit(8, 10), st) :
        v \in {Vec3Int(0, 0, 0), Vec3Int(2, 0, 0), Vec3Int(-3, 0, 0),
               Vec3(NumLit(15, 10), NumInt(1), NumInt(0))},
        st \in BOOLEAN}

\* PhysicsBody values whose isStatic flag and inverseMass are given separately,
\* as the interface allows
FlaggedBodiesA ==
    {[position |-> Vec3Int(0, 0, 0), velocity |-> v, inverseMass |-> im,
      restitution |-> NumLit(2, 10), isStatic |-> st] :
        v \in {Vec3Int(0, 0, 0), Vec3Int(1, 0, 0), Vec3Int(-1, 2, 0)},
        im \in {NumInt(0), NumInt(1)},
        st \in BOOLEAN}

FlaggedBodiesB ==
    {[position |-> Vec3Int(1, 0, 0), velocity |-> v, inverseMass |-> im,
      restitution |-> NumLit(8, 10), isStatic |-> st] :
        v \in {Vec3Int(0, 0, 0), Vec3Int(2, 0, 0), Vec3Int(-3, 0, 0)},
        im \in {NumInt(0), NumLit(1, 2)},
        st \in BOOLEAN}

Contacts ==
    {[normal |-> n, penetration |-> p] :
        n \in {Vec3Int(1, 0, 0), Vec3Int(0, 1, 0)},
        p \in {NumLit(5, 1000), NumLit(5, 10)}}

NoCall == [name |-> "none"]

InitCall == call = NoCall

\* a call of resolveContact; a behaviour makes one call
ResolveContactCall(bodyA, bodyB, contact) ==
    /\ call = NoCall
    /\ \E r \in {ResolveContact(bodyA, bodyB, contact)} :
        call' = [name |-> "resolveContact",
                 bodyA |-> bodyA, bodyB |-> bodyB, contact |-> contact, result |-> r]

(***************************************************************************)
(* collision/narrowphase.ts.  A NarrowphaseResult that is not colliding is *)
(* the record with the one field colliding.                                *)
(***************************************************************************)
\* the sphere test that takes the spheres as colliding already when they touch
SphereTouching(distanceSq, radiusSumSq) == ~NumLess(radiusSumSq, distanceSq)

\* the spheres overlap: not (distanceSq >= radiusSumSq)
SphereOverlap(distanceSq, radiusSumSq) == NumLess(distanceSq, radiusSumSq)

\* the result of sphereVsSphere for colliding spheres
SphereContact(centerA, radiusA, normal, penetration) ==
    [colliding        |-> TRUE,
     contactPoint     |-> Vec3Add(centerA,
                                  Vec3Mul(normal,
                                          NumSub(radiusA, NumDiv(penetration, NumInt(2))))),
     contactNormal    |-> normal,
     penetrationDepth |-> penetration]

\* sphereVsSphere once delta, radiusSum and distance are known
SphereHit(centerA, radiusA, delta, radiusSum, distance) ==
    SphereContact(centerA, radiusA,
                  IF NumLess(NumZero(0), distance) THEN Vec3Div(delta, distance)
                  ELSE Vec3Int(1, 0, 0),
                  NumSub(radiusSum, distance))

SphereTest(centerA, radiusA, delta, radiusSum) ==
    IF ~SphereOverlap(Vec3LengthSq(delta), NumMul(radiusSum, radiusSum))
    THEN [colliding |-> FALSE]
    ELSE SphereHit(centerA, radiusA, delta, radiusSum, NumSqrt(Vec3LengthSq(delta)))

SphereVsSphere(centerA, radiusA, centerB, radiusB) ==
    SphereTest(centerA, radiusA, Vec3Sub(centerB, centerA), NumAdd(radiusA, radiusB))

Centers ==
    {Vec3Int(0, 50, 0), Vec3Int(3, 50, 0), Vec3Int(0, 0, 0), Vec3Int(5, 0, 0),
     Vec3Int(1, 1, 0), Vec3Int(6, 50, 1),
     Vec3(NumLit(1, 10), NumLit(2, 10), NumLit(3, 10))}

Radii == {NumLit(25, 10), NumLit(1, 10), NumLit(2, 10), NumInt(1), NumInt(0)}

\* a call of sphereVsSphere; a behaviour makes one call
SphereVsSphereCall(centerA, radiusA, centerB, radiusB) ==
    /\ call = NoCall
    /\ \E r \in {SphereVsSphere(centerA, radiusA, centerB, radiusB)} :
        call' = [name |-> "sphereVsSphere",
                 centerA |-> centerA, radiusA |-> radiusA,
                 centerB |-> centerB, radiusB |-> radiusB, result |-> r]

(***************************************************************************)
(* Ray casts (narrowphase.ts).  A RaycastResult is [hit |-> FALSE] or a    *)
(* record with hit, distance, point and normal.                            *)
(***************************************************************************)
NumAbs(a) == IF IsNaN(a) THEN a ELSE [a EXCEPT !.sign = 0]

NoHit == [hit |-> FALSE]

RayHit(t, point, normal) == [hit |-> TRUE, distance |-> t, point |-> point, normal |-> normal]

RayPoint(origin, direction, t) == Vec3Add(origin, Vec3Mul(direction, t))

\* (-b - sqrtD) / (2 * a)
NearRoot(a, b, sqrtD) == NumDiv(NumSub(NumNeg(b), sqrtD), NumMul(NumInt(2), a))

\* (-b + sqrtD) / (2 * a)
FarRoot(a, b, sqrtD) == NumDiv(NumAdd(NumNeg(b), sqrtD), NumMul(NumInt(2), a))

\* t after "if (t < 0) t = ..."
SphereRoot(near, a, b, sqrtD) ==
    IF NumLess(near, NumZero(0)) THEN FarRoot(a, b, sqrtD) ELSE near

SphereRayAt(origin, direction, center, t, maxDistance) ==
    IF NumLess(t, NumZero(0)) \/ NumLess(maxDistance, t) THEN NoHit
    ELSE RayHit(t, RayPoint(origin, direction, t),
                Vec3Normalize(Vec3Sub(RayPoint(origin, direction, t), center)))

SphereRayRoots(origin, direction, center, a, b, discriminant, maxDistance) ==
    IF NumLess(discriminant, NumZero(0)) THEN NoHit
    ELSE SphereRayAt(origin, direction, center,
                     SphereRoot(NearRoot(a, b, NumSqrt(discriminant)),
                                a, b, NumSqrt(discriminant)),
                     maxDistance)

\* b * b - 4 * a * c
Discriminant(a, b, c) == NumSub(NumMul(b, b), NumMul(NumMul(NumInt(4), a), c))

SphereRay(origin, direction, center, oc, radius, maxDistance) ==
    SphereRayRoots(origin, direction, center,
                   Vec3Dot(direction, direction),
                   NumMul(NumInt(2), Vec3Dot(oc, direction)),
                   Discriminant(Vec3Dot(direction, direction),
                                NumMul(NumInt(2), Vec3Dot(oc, direction)),
                                NumSub(Vec3Dot(oc, oc), NumMul(radius, radius))),
                   maxDistance)

RaycastSphere(origin, direction, center, radius, maxDistance) ==
    SphereRay(origin, direction, center, Vec3Sub(origin, center), radius, maxDistance)

\* direction.x !== 0 ? 1 / direction.x : Infinity
InvDir(d) == IF IsZero(d) THEN NumInf(0) ELSE NumDiv(NumInt(1), d)

\* (bounds.min.x - origin.x) * invDir.x
SlabT(bound, o, inv) == NumMul(NumSub(bound, o), inv)

\* Math.min(t1, t2) of one axis
SlabMin(lo, hi, o, d) == NumMin(SlabT(lo, o, InvDir(d)), SlabT(hi, o, InvDir(d)))

\* Math.max(t1, t2) of one axis
SlabMax(lo, hi, o, d) == NumMax(SlabT(lo, o, InvDir(d)), SlabT(hi, o, InvDir(d)))

RayTmin(origin, direction, bounds) ==
    NumMax(NumMax(SlabMin(bounds.min.x, bounds.max.x, origin.x, direction.x),
                  SlabMin(bounds.min.y, bounds.max.y, origin.y, direction.y)),
           SlabMin(bounds.min.z, bounds.max.z, origin.z, direction.z))

RayTmax(origin, direction, bounds) ==
    NumMin(NumMin(SlabMax(bounds.min.x, bounds.max.x, origin.x, direction.x),
                  SlabMax(bounds.min.y, bounds.max.y, origin.y, direction.y)),
           SlabMax(bounds.min.z, bounds.max.z, origin.z, direction.z))

Epsilon == NumLit(1, 10000)

\* Math.abs(point.x - bounds.min.x) < epsilon
OnFace(p, bound) == NumLess(NumAbs(NumSub(p, bound)), Epsilon)

\* the normal of the face the point lies on
FaceNormal(point, bounds) ==
    IF OnFace(point.x, bounds.min.x) THEN Vec3Int(-1, 0, 0)
    ELSE IF OnFace(point.x, bounds.max.x) THEN Vec3Int(1, 0, 0)
    ELSE IF OnFace(point.y, bounds.min.y) THEN Vec3Int(0, -1, 0)
    ELSE IF OnFace(point.y, bounds.max.y) THEN Vec3Int(0, 1, 0)
    ELSE IF OnFace(point.z, bounds.min.z) THEN Vec3Int(0, 0, -1)
    ELSE Vec3Int(0, 0, 1)

AabbRayAt(t, point, bounds) == RayHit(t, point, FaceNormal(point, bounds))

\* t = tmin >= 0 ? tmin : tmax
AabbRoot(tmin, tmax) ==
    IF NumLess(NumZero(0), tmin) \/ NumEq(tmin, NumZero(0)) THEN tmin ELSE tmax

AabbRay(origin, direction, bounds, tmin, tmax, maxDistance) ==
    IF NumLess(tmax, NumZero(0)) \/ NumLess(tmax, tmin) \/ NumLess(maxDistance, tmin)
    THEN NoHit
    ELSE AabbRayAt(AabbRoot(tmin, tmax),
                   RayPoint(origin, direction, AabbRoot(tmin, tmax)), bounds)

RaycastAabb(origin, direction, bounds, maxDistance) ==
    AabbRay(origin, direction, bounds,
            RayTmin(origin, direction, bounds), RayTmax(origin, direction, bounds),
            maxDistance)

\* the rays cast: origins outside, inside and on a face plane of the shapes,
\* unit directions along an axis and across the axes
Origins ==
    {Vec3Int(0, 0, 0), Vec3Int(-5, 0, 0), Vec3Int(-5, 1, 0),
     Vec3(NumLit(-1, 2), NumLit(1, 2), NumLit(1, 4)), Vec3Int(0, 7, 0)}

Directions ==
    {Vec3Int(1, 0, 0), Vec3Int(-1, 0, 0), Vec3Int(0, -1, 0),
     Vec3(NumLit(6, 10), NumLit(8, 10), NumZero(0)),
     Vec3(NumLit(8, 10), NumLit(-6, 10), NumZero(0))}

MaxDistances == {NumInt(5), NumInt(100), NumLit(1, 2)}

RayRadii == {NumInt(1), NumInt(8)}

RayBounds ==
    {[min |-> Vec3Int(-1, -1, -1), max |-> Vec3Int(1, 1, 1)],
     [min |-> Vec3Int(-10, -1, -1), max |-> Vec3Int(10, 1, 1)]}

\* a call of computeFinalHash on a runtime that recorded stepHashes
ComputeFinalHashCall(stepHashes) ==
    /\ call = NoCall
    /\ call' = [name |-> "computeFinalHash", stepHashes |-> stepHashes,
                result |-> ComputeFinalHash(stepHashes)]

\* a call of raycastSphere on a sphere about the origin
RaycastSphereCall(origin, direction, radius, maxDistance) ==
    /\ call = NoCall
    /\ \E r \in {RaycastSphere(origin, direction, Vec3Zero, radius, maxDistance)} :
        call' = [name |-> "raycastSphere", origin |-> origin, direction |-> direction,
                 radius |-> radius, maxDistance |-> maxDistance, result |-> r]

\* a call of raycastAabb
RaycastAabbCall(origin, direction, bounds, maxDistance) ==
    /\ call = NoCall
    /\ \E r \in {RaycastAabb(origin, direction, bounds, maxDistance)} :
        call' = [name |-> "raycastAabb", origin |-> origin, direction |-> direction,
                 bounds |-> bounds, maxDistance |-> maxDistance, result |-> r]

(***************************************************************************)
(* Snapshots (state.ts).  A StateSnapshot holds its entities in a Map,     *)
(* modelled by the sequence of its values in insertion order; a            *)
(* SerializedState holds vectors as arrays, modelled by tuples.            *)
(***************************************************************************)
DefaultBounds == [min |-> Vec3Int(-1000, -100, -1000), max |-> Vec3Int(1000, 1000, 1000)]

\* the element of serializeState's entities array for the entity state e
SerializeEntity(e) ==
    [id     |-> e.id,
     pos    |-> <<e.transform.position.x, e.transform.position.y, e.transform.position.z>>,
     rot    |-> <<e.transform.rotation.x, e.transform.rotation.y, e.transform.rotation.z,
                  e.transform.rotation.w>>,
     vel    |-> <<e.velocity.x, e.velocity.y, e.velocity.z>>,
     status |-> e.status]

SerializeState(state) ==
    [v        |-> state.version,
     ts       |-> state.timestamp,
     step     |-> state.step,
     entities |-> [i \in 1..Len(state.entities) |-> SerializeEntity(state.entities[i])],
     world    |-> [time       |-> state.worldState.time,
                   gravity    |-> <<state.worldState.gravity.x, state.worldState.gravity.y,
                                    state.worldState.gravity.z>>,
                   collisions |-> state.worldState.totalCollisions],
     hash     |-> state.hash]

\* the entity state deserializeState builds, but at rest
DeserializeEntityAtRest(e) ==
    [id              |-> e.id,
     transform       |-> [position |-> Vec3(e.pos[1], e.pos[2], e.pos[3]),
                          rotation |-> [x |-> e.rot[1], y |-> e.rot[2], z |-> e.rot[3],
                                        w |-> e.rot[4]],
                          scale    |-> Vec3Int(1, 1, 1)],
     velocity        |-> Vec3Zero,
     angularVelocity |-> Vec3Zero,
     acceleration    |-> Vec3Zero,
     status          |-> "idle"]

\* the entity state deserializeState builds from the array element e
DeserializeEntity(e) ==
    [id              |-> e.id,
     transform       |-> [position |-> Vec3(e.pos[1], e.pos[2], e.pos[3]),
                          rotation |-> [x |-> e.rot[1], y |-> e.rot[2], z |-> e.rot[3],
                                        w |-> e.rot[4]],
                          scale    |-> Vec3Int(1, 1, 1)],
     velocity        |-> Vec3(e.vel[1], e.vel[2], e.vel[3]),
     angularVelocity |-> Vec3Zero,
     acceleration    |-> Vec3Zero,
     status          |-> e.status]

RECURSIVE DeserializeEntities(_, _, _)
\* the Map deserializeState fills: entities.set(e.id, ...) for the elements of
\* data from the i-th on
DeserializeEntities(entities, data, i) ==
    IF i > Len(data) THEN entities
    ELSE DeserializeEntities(RegistrySet(entities, DeserializeEntity(data[i])), data, i + 1)

\* deserializeState once the Map of the entities is filled
Deserialized(data, entities) ==
    [version    |-> data.v,
     timestamp  |-> data.ts,
     step       |-> data.step,
     entities   |-> entities,
     worldState |-> [time              |-> data.world.time,
                     gravity           |-> Vec3(data.world.gravity[1], data.world.gravity[2],
                                                data.world.gravity[3]),
                     bounds            |-> DefaultBounds,
                     activeEntityCount |-> Len(entities),
                     totalCollisions   |-> data.world.collisions],
     hash       |-> data.hash]

DeserializeState(data) == Deserialized(data, DeserializeEntities(<< >>, data.entities, 1))

\* entity states: moving, disabled and in collision, with scale, angular
\* velocity, acceleration and custom state that serializeState leaves out
EntityState(id, position, velocity, status) ==
    [id              |-> id,
     transform       |-> [position |-> position,
                          rotation |-> [x |-> NumInt(0), y |-> NumLit(6, 10), z |-> NumInt(0),
                                        w |-> NumLit(8, 10)],
                          scale    |-> Vec3Int(2, 2, 2)],
     velocity        |-> velocity,
     angularVelocity |-> Vec3Int(0, 1, 0),
     acceleration    |-> Gravity,
     status          |-> status,
     customState     |-> [target |-> Vec3Int(3, 0, 4)]]

EntityStates ==
    {EntityState(1, Vec3Int(0, 10, 0), Vec3(NumLit(297, 10), NumZero(1), NumInt(0)), "moving"),
     EntityState(2, Vec3(NumInt(3), NumLit(-1, 10), NumInt(0)), Vec3Zero, "disabled"),
     EntityState(3, Vec3Int(-7, 0, 2), Vec3Int(0, -2, 0), "collision")}

\* the Maps of entity states: the sequences without a repeated id
EntityMaps ==
    {m \in SeqsUpTo(EntityStates, 3) : \A i, j \in 1..Len(m) : m[i].id = m[j].id => i = j}

WorldBounds == {DefaultBounds, [min |-> Vec3Int(-5, -5, -5), max |-> Vec3Int(5, 5, 5)]}

SnapshotHashes == {ComputeFinalHash(<< >>), ComputeFinalHash(<<<<4660, 22136>>>>)}

Snapshot(entities, bounds, step, hash) ==
    [version    |-> 3,
     timestamp  |-> 1700000000 + step,
     step       |-> step,
     entities   |-> entities,
     worldState |-> [time              |-> NumMul(NumInt(step), Timestep),
                     gravity           |-> Gravity,
                     bounds            |-> bounds,
                     activeEntityCount |-> Len(entities),
                     totalCollisions   |-> step \div 2],
     hash       |-> hash]

Snapshots ==
    {Snapshot(m, b, step, hash) :
        m \in EntityMaps, b \in WorldBounds, step \in {0, 7}, hash \in SnapshotHashes}

\* a call of serializeState
SerializeStateCall(state) ==
    /\ call = NoCall
    /\ call' = [name |-> "serializeState", state |-> state, result |-> SerializeState(state)]

\* a call of deserializeState on what serializeState returned
DeserializeStateCall ==
    /\ call.name = "serializeState"
    /\ call' = [name |-> "deserializeState", state |-> call.state, data |-> call.result,
                result |-> DeserializeState(call.result)]

(***************************************************************************)
(* ContactCallbackRegistry (collision/contact).  An entity id is a string  *)
(* without ':' (world/entity.ts generateEntityId), so that the key         *)
(* `${entityA}:${entityB}` and its split(':') are modelled by the ordered  *)
(* pair <<entityA, entityB>> and its two components.  A callback is        *)
(* identified by the map it is registered in, the entity it is registered  *)
(* for and its index in that entity's list.                                *)
(***************************************************************************)
CallbackKinds == {"onEnter", "onStay", "onExit"}

NoProcess == [calls |-> 0, events |-> << >>, before |-> << >>, fired |-> << >>, history |-> << >>]

InitContacts ==
    /\ callbacks = [kind \in CallbackKinds |-> [id \in Ids |-> 0]]
    /\ activeContacts = << >>
    /\ registryLog = NoProcess
    /\ manifolds = << >>
    /\ managerLog = [added |-> << >>, cleared |-> FALSE]

\* registerOnEnter, registerOnStay, registerOnExit: callbacks.push(callback)
Register(kind, id) ==
    /\ callbacks[kind][id] < MaxCallbacks
    /\ registryLog.calls = 0
    /\ callbacks' = [callbacks EXCEPT ![kind][id] = @ + 1]
    /\ UNCHANGED <<activeContacts, registryLog, manifolds, managerLog>>

ContactKey(event) == <<event.entityA, event.entityB>>

ExitEvent(key) == [entityA |-> key[1], entityB |-> key[2]]

CallbackCalls(kind, owner, event) ==
    [i \in 1..callbacks[kind][owner] |->
        [kind |-> kind, owner |-> owner, index |-> i,
         entityA |-> event.entityA, entityB |-> event.entityB]]

\* callbacksA, then callbacksB
TriggerCallbacks(kind, event) ==
    CallbackCalls(kind, event.entityA, event) \o CallbackCalls(kind, event.entityB, event)

RECURSIVE EnterOrStay(_, _, _, _)
EnterOrStay(active, fired, events, i) ==
    IF i > Len(events) THEN [active |-> active, fired |-> fired]
    ELSE IF ~HasPair(active, ContactKey(events[i]))
         THEN EnterOrStay(Append(active, ContactKey(events[i])),
                          fired \o TriggerCallbacks("onEnter", events[i]), events, i + 1)
         ELSE EnterOrStay(active, fired \o TriggerCallbacks("onStay", events[i]), events, i + 1)

CurrentContacts(events) == {ContactKey(events[i]) : i \in 1..Len(events)}

RECURSIVE Exit(_, _, _, _, _)
Exit(keys, current, active, fired, i) ==
    IF i > Len(keys) THEN [active |-> active, fired |-> fired]
    ELSE IF keys[i] \notin current
         THEN Exit(keys, current, active, fired \o TriggerCallbacks("onExit", ExitEvent(keys[i])), i + 1)
         ELSE Exit(keys, current, Append(active, keys[i]), fired, i + 1)

Processed(entered, events) == Exit(entered.active, CurrentContacts(events), << >>, entered.fired, 1)

ProcessContacts(events) ==
    /\ registryLog.calls < MaxProcessed
    /\ \E r \in {Processed(EnterOrStay(activeContacts, << >>, events, 1), events)} :
        /\ activeContacts' = r.active
        /\ registryLog' = [calls |-> registryLog.calls + 1, events |-> events,
                           before |-> activeContacts, fired |-> r.fired,
                           history |-> registryLog.history \o r.fired]
    /\ UNCHANGED <<callbacks, manifolds, managerLog>>

CollisionEvent(entityA, entityB) == [entityA |-> entityA, entityB |-> entityB]

ContactEvents == {CollisionEvent(1, 2), CollisionEvent(2, 1), CollisionEvent(1, 3)}

EventLists == SeqsUpTo(ContactEvents, MaxEvents)

(***************************************************************************)
(* ContactManager (collision/contact).  The key `${a}:${b}` is modelled by *)
(* the pair <<a, b>>; manifolds is the Map in insertion order, each entry  *)
(* with its key.                                                           *)
(***************************************************************************)
GetManifoldKeyAsGiven(a, b) == <<a, b>>

GetManifoldKey(a, b) == IF a < b THEN <<a, b>> ELSE <<b, a>>

ManifoldIndex(key) ==
    IF \E i \in 1..Len(manifolds) : manifolds[i].key = key
    THEN CHOOSE i \in 1..Len(manifolds) : manifolds[i].key = key
    ELSE 0

NewManifold(entityA, entityB, friction, restitution) ==
    [key |-> GetManifoldKey(entityA, entityB),
     entityA |-> IF entityA < entityB THEN entityA ELSE entityB,
     entityB |-> IF entityA < entityB THEN entityB ELSE entityA,
     contacts |-> << >>, friction |-> friction, restitution |-> restitution]

WithManifold(entityA, entityB, friction, restitution) ==
    IF ManifoldIndex(GetManifoldKey(entityA, entityB)) = 0
    THEN Append(manifolds, NewManifold(entityA, entityB, friction, restitution))
    ELSE manifolds

AddContact(entityA, entityB, contact, friction, restitution) ==
    /\ Len(managerLog.added) < MaxContacts
    /\ \E ms \in {WithManifold(entityA, entityB, friction, restitution)} :
        manifolds' = [i \in 1..Len(ms) |->
            IF ms[i].key = GetManifoldKey(entityA, entityB)
            THEN [ms[i] EXCEPT !.contacts = Append(@, contact)] ELSE ms[i]]
    /\ managerLog' = [added |-> Append(managerLog.added,
                                       [entityA |-> entityA, entityB |-> entityB, contact |-> contact]),
                      cleared |-> FALSE]
    /\ UNCHANGED <<callbacks, activeContacts, registryLog>>

GetManifolds == [i \in 1..Len(manifolds) |-> [k \in DOMAIN manifolds[i] \ {"key"} |-> manifolds[i][k]]]

Clear ==
    /\ manifolds' = << >>
    /\ managerLog' = [added |-> << >>, cleared |-> TRUE]
    /\ UNCHANGED <<callbacks, activeContacts, registryLog>>

ContactPoints == {[penetration |-> 1], [penetration |-> 2]}

Frictions == {0, 1}

(***************************************************************************)
(* The validation of a simulation configuration (core/client.ts) and the   *)
(* configurations a SimulationRuntime can be constructed with.  simulate() *)
(* is modelled up to validateSimulationConfig: the scenario and quota      *)
(* checks and the mocked execution that follow it run no tick.             *)
(***************************************************************************)
ResolveSimulationConfig(partial) ==
    [DefaultConfig EXCEPT !.maxSteps = OrElse(partial.maxSteps, 10000),
                          !.timestep = OrElse(partial.timestep, Timestep)]

ValidateSimulationConfig(cfg) ==
    (IF cfg.maxSteps < 1 THEN <<"maxSteps">> ELSE << >>)
        \o (IF cfg.maxSteps > 10000000 THEN <<"maxSteps">> ELSE << >>)
        \o (IF NumLess(cfg.timestep, NumInt(0)) \/ NumEq(cfg.timestep, NumInt(0))
            THEN <<"timestep">> ELSE << >>)
        \o (IF NumLess(NumInt(1), cfg.timestep) THEN <<"timestep">> ELSE << >>)

Simulate(partial) ==
    /\ call = NoCall
    /\ \E errors \in {ValidateSimulationConfig(ResolveSimulationConfig(partial))} :
        call' = [name |-> "simulate", config |-> ResolveSimulationConfig(partial),
                 errors |-> errors,
                 thrown |-> IF Len(errors) > 0 THEN "ValidationError" ELSE "none"]

TimestepValues == {NumInt(0), NumNeg(Timestep), Timestep, NumInt(1), NumInt(2)}

MaxStepsValues == {0, 10000, 10000001}

PartialConfigs ==
    {[timestep |-> t, maxSteps |-> n] :
        t \in {<< >>} \cup {<<v>> : v \in TimestepValues},
        n \in {<< >>} \cup {<<v>> : v \in MaxStepsValues}}

RuntimeConfigs ==
    {[DefaultConfig EXCEPT !.timestep = t, !.maxSteps = n, !.strictMode = s] :
        t \in TimestepValues, n \in MaxStepsValues, s \in BOOLEAN}

(***************************************************************************)
(* The specifications.                                                     *)
(***************************************************************************)
NextBroadphase ==
    \/ \E id \in Ids, b \in Boxes : Insert(id, b) /\ UNCHANGED notBpVars
    \/ \E id \in Ids, b \in Boxes : Update(id, b) /\ UNCHANGED notBpVars
    \/ \E id \in Ids : Remove(id) /\ UNCHANGED notBpVars
    \/ QueryPairs /\ UNCHANGED notBpVars

NextBroadphaseCleared ==
    \/ \E id \in Ids, b \in Boxes : Insert(id, b) /\ UNCHANGED notBpVars
    \/ \E id \in Ids, b \in Boxes : Update(id, b) /\ UNCHANGED notBpVars
    \/ \E id \in Ids : Remove(id) /\ UNCHANGED notBpVars
    \/ QueryPairs /\ UNCHANGED notBpVars
    \/ ClearBroadphase /\ UNCHANGED notBpVars

NextBroadphaseFresh ==
    \/ \E id \in Ids, b \in Boxes : Insert(id, b) /\ UNCHANGED notBpVars
    \/ QueryPairs /\ UNCHANGED notBpVars

NextClock == \E d \in Deltas : Advance(d) /\ UNCHANGED notClockVars

NextSeed ==
    \/ \E n \in SubsystemNames : Draw(n) /\ UNCHANGED notSeedVars
    \/ CaptureSeedStream /\ UNCHANGED notSeedVars
    \/ Restore /\ UNCHANGED notSeedVars
    \/ \E n \in SubsystemNames : ResumedDraw(n) /\ UNCHANGED notSeedVars

NextRandom ==
    \/ ParentNext /\ UNCHANGED notRandomVars
    \/ \E n \in ForkNames : ForkChild(n) /\ UNCHANGED notRandomVars
    \/ \E k \in 1..MaxForks : ChildNext(k) /\ UNCHANGED notRandomVars

NextContact ==
    \E a \in BodiesA, b \in BodiesB, c \in Contacts :
        ResolveContactCall(a, b, c) /\ UNCHANGED notCallVars

NextContactFlagged ==
    \E a \in FlaggedBodiesA, b \in FlaggedBodiesB, c \in Contacts :
        ResolveContactCall(a, b, c) /\ UNCHANGED notCallVars

NextNarrowphase ==
    \/ \E a \in Centers, b \in Centers, ra \in Radii, rb \in Radii :
           SphereVsSphereCall(a, ra, b, rb) /\ UNCHANGED notCallVars
    \/ \E o \in Origins, d \in Directions, r \in RayRadii, m \in MaxDistances :
           RaycastSphereCall(o, d, r, m) /\ UNCHANGED notCallVars
    \/ \E o \in Origins, d \in Directions, b \in RayBounds, m \in MaxDistances :
           RaycastAabbCall(o, d, b, m) /\ UNCHANGED notCallVars

NextHash ==
    \E stepHashes \in SeqsUpTo(StepHashes, MaxHashes) :
        ComputeFinalHashCall(stepHashes) /\ UNCHANGED notCallVars

NextSnapshot ==
    \/ \E state \in Snapshots : SerializeStateCall(state) /\ UNCHANGED notCallVars
    \/ DeserializeStateCall /\ UNCHANGED notCallVars

\* session 1 is used, reset and used again; session 2, freshly constructed,
\* is given what session 1 is given after its reset
NextCallbacks ==
    \/ \E kind \in CallbackKinds, id \in Ids : Register(kind, id) /\ UNCHANGED notContactVars
    \/ \E events \in EventLists : ProcessContacts(events) /\ UNCHANGED notContactVars

NextManifolds ==
    \/ \E entityA \in Ids : \E entityB \in Ids \ {entityA}, contact \in ContactPoints, friction \in Frictions :
           AddContact(entityA, entityB, contact, friction, 0) /\ UNCHANGED notContactVars
    \/ Clear /\ UNCHANGED notContactVars

NextConfig ==
    \/ \E d \in Descriptors : AddEntity(1, d) /\ UNCHANGED notSimVars
    \/ Step(<< >>) /\ UNCHANGED notSimVars
    \/ \E partial \in PartialConfigs : Simulate(partial) /\ UNCHANGED notCallVars

\* removeEntity(id) with what its caller sees: the entity count before the
\* call, the ticks made before it, and the value returned
RemoveEntityCall(id) ==
    /\ RemoveEntity(id)
    /\ call' = [name |-> "removeEntity", id |-> id,
                count |-> GetEntityCount(sessions[1]),
                ticks |-> Len(simLog.lists),
                result |-> id \in EntityIds(1)]
    /\ UNCHANGED <<bpVars, clockVars, seedVars, randomVars, contactVars, asyncVars, loop, heap>>

NextRemove ==
    \/ \E d \in Descriptors : call = NoCall /\ AddEntity(1, d) /\ UNCHANGED notSimVars
    \/ \E id \in Ids : RemoveEntityCall(id)
    \/ \E id \in 1..2 : Disable(id) /\ UNCHANGED notSimVars
    \/ \E actions \in ActionLists : Step(actions) /\ UNCHANGED notSimVars

NextApart ==
    \/ \E s \in Sessions, d \in Descriptors : AddEntity(s, d) /\ UNCHANGED notSimVars
    \/ \E actions \in ActionLists : Step(actions) /\ UNCHANGED notSimVars
    \/ ReplayApart /\ UNCHANGED notSimVars

NextTicks ==
    \/ \E d \in Descriptors : AddEntity(1, d) /\ UNCHANGED notSimVars
    \/ \E actions \in ActionLists \cup {l \in MoreActionLists : Len(l) = 1} :
           Step(actions) /\ UNCHANGED notSimVars
    \/ Reset /\ UNCHANGED notSimVars

\* one tick of a session that may hold an obstacle and disabled entities
NextPass ==
    \/ \E d \in Descriptors \cup {ObstacleDescriptor} :
           AddEntity(1, d) /\ UNCHANGED notSimVars
    \/ \E id \in 1..2 : simLog.lists = << >> /\ Disable(id) /\ UNCHANGED notSimVars
    \/ \E actions \in ActionLists \cup {l \in MoreActionLists : Len(l) = 5} :
           simLog.lists = << >> /\ Step(actions) /\ UNCHANGED notSimVars

NextCap ==
    \/ \E d \in Descriptors : AddEntity(1, d) /\ UNCHANGED notSimVars
    \/ \E actions \in CapActionLists : Step(actions) /\ UNCHANGED notSimVars

NextRefs ==
    \/ \E d \in Descriptors : AddEntityRefs(d) /\ UNCHANGED notSimHeapVars
    \/ \E actions \in ActionLists : StepRefs(actions) /\ UNCHANGED notSimHeapVars
    \/ GetStateRefs /\ UNCHANGED notSimHeapVars
    \/ \E id \in 1..2 :
           /\ \E e \in Range(sessions[1].entities) : e.id = id
           /\ RemoveEntityRefs(id) /\ UNCHANGED notSimHeapVars

NextLoop ==
    \/ \E d \in Deltas : EnterAdvance(d) /\ UNCHANGED notLoopVars
    \/ WhileBody /\ UNCHANGED notLoopVars
    \/ ReturnAdvance /\ UNCHANGED notLoopVars

NextAsync ==
    \/ \E d \in Descriptors :
           asyncLog.calls = 0 /\ AddEntity(1, d) /\ UNCHANGED notSimVars
    \/ Initialize /\ UNCHANGED notSimAsyncVars
    \/ \E actions \in ActionLists : CallStep(actions) /\ UNCHANGED notSimAsyncVars
    \/ ResumeStep /\ UNCHANGED notSimAsyncVars

NextReset ==
    \/ \E d \in Descriptors : AddEntity(1, d) /\ UNCHANGED notSimVars
    \/ \E actions \in ActionLists : Step(actions) /\ UNCHANGED notSimVars
    \/ Reset /\ UNCHANGED notSimVars
    \/ \E d \in Descriptors :
           simLog.resets > 0 /\ AddEntity(2, d) /\ UNCHANGED notSimVars
    \/ simLog.resets > 0 /\ Replay /\ UNCHANGED notSimVars

NextActions ==
    \/ \E d \in Descriptors : AddEntity(1, d) /\ UNCHANGED notSimVars
    \/ \E id \in 1..2 : RemoveEntity(id) /\ UNCHANGED notSimVars
    \/ \E id \in 1..2 : Disable(id) /\ UNCHANGED notSimVars
    \/ \E actions \in ActionLists \cup MoreActionLists :
           Step(actions) /\ UNCHANGED notSimVars

NextSim ==
    \/ \E s \in Sessions, d \in Descriptors : AddEntity(s, d) /\ UNCHANGED notSimVars
    \/ \E actions \in ActionLists : Step(actions) /\ UNCHANGED notSimVars
    \/ Replay /\ UNCHANGED notSimVars

InitAll == InitBroadphase /\ InitClock /\ InitSeed({42}) /\ InitSim({DefaultConfig}) /\ InitRandom({42}, {"main"}) /\ InitCall /\ InitContacts /\ InitAsync /\ InitLoop /\ InitHeap

InitSeeds == InitBroadphase /\ InitClock /\ InitSeed(MasterSeeds) /\ InitSim({DefaultConfig}) /\ InitRandom({42}, {"main"}) /\ InitCall /\ InitContacts /\ InitAsync /\ InitLoop /\ InitHeap

InitRandoms ==
    InitBroadphase /\ InitClock /\ InitSeed({42}) /\ InitSim({DefaultConfig})
        /\ InitRandom(MasterSeeds, ParentSubsystems) /\ InitCall /\ InitContacts /\ InitAsync /\ InitLoop /\ InitHeap

InitSims == InitBroadphase /\ InitClock /\ InitSeed({42}) /\ InitSim(Configs) /\ InitRandom({42}, {"main"}) /\ InitCall /\ InitContacts /\ InitAsync /\ InitLoop /\ InitHeap

SpecBroadphase == InitAll /\ [][NextBroadphase]_vars

SpecBroadphaseCleared == InitAll /\ [][NextBroadphaseCleared]_vars

SpecBroadphaseFresh == InitAll /\ [][NextBroadphaseFresh]_vars

SpecClock == InitAll /\ [][NextClock]_vars

SpecSeed == InitSeeds /\ [][NextSeed]_vars

SpecRandom == InitRandoms /\ [][NextRandom]_vars

SpecContact == InitAll /\ [][NextContact]_vars

SpecContactFlagged == InitAll /\ [][NextContactFlagged]_vars

SpecNarrowphase == InitAll /\ [][NextNarrowphase]_vars

SpecHash == InitAll /\ [][NextHash]_vars

SpecSnapshot == InitAll /\ [][NextSnapshot]_vars

SpecCallbacks == InitAll /\ [][NextCallbacks]_vars

SpecManifolds == InitAll /\ [][NextManifolds]_vars

InitConfig ==
    InitBroadphase /\ InitClock /\ InitSeed({42}) /\ InitSim(RuntimeConfigs)
        /\ InitRandom({42}, {"main"}) /\ InitCall /\ InitContacts /\ InitAsync /\ InitLoop /\ InitHeap

SpecConfig == InitConfig /\ [][NextConfig]_vars

SpecRemove == InitSims /\ [][NextRemove]_vars

SpecApart == InitSims /\ [][NextApart]_vars

SpecTicks == InitSims /\ [][NextTicks]_vars

InitLoops ==
    /\ InitBroadphase /\ InitClock /\ InitSeed({42}) /\ InitSim({DefaultConfig})
    /\ InitRandom({42}, {"main"}) /\ InitCall /\ InitContacts /\ InitAsync
    /\ \E fixedTimestep \in FixedTimesteps, maxSubsteps \in MaxSubstepsValues :
           loop = Constructed(fixedTimestep, maxSubsteps)
    /\ InitHeap

\* advance is synchronous code: a call in progress keeps running
SpecLoop ==
    /\ InitLoops
    /\ [][NextLoop]_vars
    /\ WF_vars(WhileBody /\ UNCHANGED notLoopVars)
    /\ WF_vars(ReturnAdvance /\ UNCHANGED notLoopVars)

\* the four integrators, strict mode off
InitPass ==
    /\ InitBroadphase /\ InitClock /\ InitSeed({42})
    /\ InitSim({[DefaultConfig EXCEPT !.integrator = t] : t \in IntegratorTypes})
    /\ InitRandom({42}, {"main"}) /\ InitCall /\ InitContacts /\ InitAsync /\ InitLoop /\ InitHeap

SpecPass == InitPass /\ [][NextPass]_vars

SpecCap == InitPass /\ [][NextCap]_vars

SpecRefs == InitAll /\ [][NextRefs]_vars

SpecAsync == InitSims /\ [][NextAsync]_vars

SpecReset == InitSims /\ [][NextReset]_vars

InitActions ==
    InitBroadphase /\ InitClock /\ InitSeed({42}) /\ InitSim(LoggerConfigs)
        /\ InitRandom({42}, {"main"}) /\ InitCall /\ InitContacts /\ InitAsync /\ InitLoop /\ InitHeap

SpecActions == InitActions /\ [][NextActions]_vars

Spec == InitSims /\ [][NextSim]_vars

(***************************************************************************)
(* Claims on the broadphase backends.                                      *)
(***************************************************************************)
Unordered(pairs) == {{pairs[i].entityA, pairs[i].entityB} : i \in 1..Len(pairs)}

Max2(a, b) == IF a > b THEN a ELSE b
Min2(a, b) == IF a < b THEN a ELSE b

\* two boxes share a point: on every axis the two intervals meet
SharePoint(a, b) ==
    /\ Max2(a.min.x, b.min.x) <= Min2(a.max.x, b.max.x)
    /\ Max2(a.min.y, b.min.y) <= Min2(a.max.y, b.max.y)
    /\ Max2(a.min.z, b.min.z) <= Min2(a.max.z, b.max.z)

\* two boxes that only touch: they share a point and no volume
OnlyTouch(a, b) ==
    /\ SharePoint(a, b)
    /\ \/ Max2(a.min.x, b.min.x) = Min2(a.max.x, b.max.x)
       \/ Max2(a.min.y, b.min.y) = Min2(a.max.y, b.max.y)
       \/ Max2(a.min.z, b.min.z) = Min2(a.max.z, b.max.z)

\* the unordered pairs of inserted entities whose AABBs share a point
IntersectingPairs ==
    {{simpleEntities[i].id, simpleEntities[j].id} :
        <<i, j>> \in {<<i, j>> \in (1..Len(simpleEntities)) \X (1..Len(simpleEntities)) :
                        /\ i < j
                        /\ SharePoint(simpleEntities[i].bounds, simpleEntities[j].bounds)}}

\* C3: entities with distinct ids inserted once each into the three fresh
\* backends: the three queryPairs() results hold the same set of unordered
\* pairs, which is the set of the pairs whose AABBs intersect, touching included.
C3_BroadphaseEquivalence ==
    bpResult.valid =>
        /\ Unordered(bpResult.simple) = IntersectingPairs
        /\ Unordered(bpResult.hash) = IntersectingPairs
        /\ Unordered(bpResult.sap) = IntersectingPairs

\* three entities inserted against their min-x order, two intersecting pairs,
\* one of them only touching, and one pair apart
C3_Witness ==
    /\ bpResult.valid
    /\ Len(simpleEntities) = 3
    /\ simpleEntities[1].bounds.min.x > simpleEntities[2].bounds.min.x
    /\ Cardinality(IntersectingPairs) = 2
    /\ Unordered(bpResult.sap) = IntersectingPairs
    /\ \E i, j \in 1..3 : OnlyTouch(simpleEntities[i].bounds, simpleEntities[j].bounds)

\* C4: after any interleaving of insert, update, remove and queryPairs applied
\* to the three backends alike, the spatial-hash and the sweep-and-prune
\* results hold the same unordered pairs as the brute-force result.
C4_BackendsAgree ==
    bpResult.valid =>
        /\ Unordered(bpResult.hash) = Unordered(bpResult.simple)
        /\ Unordered(bpResult.sap) = Unordered(bpResult.simple)

Canonical(pairs) == \A i \in 1..Len(pairs) : pairs[i].entityA < pairs[i].entityB

\* C5: every pair returned by queryPairs() of each backend has
\* entityA < entityB, whatever the insertion order.
C5_PairsCanonical ==
    bpResult.valid =>
        /\ Canonical(bpResult.simple)
        /\ Canonical(bpResult.hash)
        /\ Canonical(bpResult.sap)

NoRepeat(pairs) ==
    /\ \A i \in 1..Len(pairs) : pairs[i].entityA # pairs[i].entityB
    /\ \A i, j \in 1..Len(pairs) :
          i # j => {pairs[i].entityA, pairs[i].entityB} # {pairs[j].entityA, pairs[j].entityB}

\* C6: the spatial-hash result reports every intersecting pair exactly once,
\* and no backend's result holds an unordered pair twice or a pair of an
\* entity with itself.
C6_PairsOnce ==
    bpResult.valid =>
        /\ \A p \in IntersectingPairs :
              Cardinality({i \in 1..Len(bpResult.hash) :
                  {bpResult.hash[i].entityA, bpResult.hash[i].entityB} = p}) = 1
        /\ NoRepeat(bpResult.simple)
        /\ NoRepeat(bpResult.hash)
        /\ NoRepeat(bpResult.sap)

(***************************************************************************)
(* Claims on the fixed-step clock.                                         *)
(***************************************************************************)
RECURSIVE FSum(_)
\* the sum of a sequence of doubles as a real number
FSum(ds) == IF ds = <<>> THEN FZero ELSE FAddExact(FSum(SubSeq(ds, 1, Len(ds) - 1)), ds[Len(ds)])

RECURSIVE WholeSteps(_, _)
\* k when the real number x is k * fixedTimestep for a whole k >= 0, and -1 otherwise
WholeSteps(x, k) ==
    IF x = FZero THEN k
    ELSE IF FLess(x, FixedTimestep) THEN -1
    ELSE WholeSteps(FAddExact(x, FNeg(FixedTimestep)), k + 1)

AllNonNegative(ds) == \A i \in 1..Len(ds) : ~FLess(ds[i], FZero)

SumInSteps == WholeSteps(FSum(clockLog.deltas), 0)

\* C7 as claimed: for every sequence of non-negative deltas passed to advance
\* from an empty accumulator whose sum is exactly k * fixedTimestep, the
\* callbacks invoked over the sequence number exactly k.
C7_FixedStepInvariance ==
    (AllNonNegative(clockLog.deltas) /\ SumInSteps >= 0) => clockLog.total = SumInSteps

\* C7 as amended: the same, for the sequences in which no call clamped the
\* accumulator and no accumulator addition or subtraction was rounded.
C7_FixedStepInvarianceExact ==
    (/\ AllNonNegative(clockLog.deltas)
     /\ SumInSteps >= 0
     /\ ~clockLog.clamped
     /\ ~clockLog.rounded) => clockLog.total = SumInSteps

\* three or more irregular deltas that sum to two steps or more, exactly
C7_Witness ==
    /\ Len(clockLog.deltas) >= 3
    /\ \E i, j \in 1..Len(clockLog.deltas) : clockLog.deltas[i] # clockLog.deltas[j]
    /\ AllNonNegative(clockLog.deltas)
    /\ ~clockLog.clamped
    /\ ~clockLog.rounded
    /\ SumInSteps >= 2
    /\ clockLog.total = SumInSteps

SpecExample == <<D0_005, D0_011, D0_016, D0_016>>

\* C8 as claimed: with fixedTimestep 0.016 and maxSubsteps 10, the deltas
\* 0.005, 0.011, 0.016, 0.016 on a fresh DeterministicRuntime invoke exactly
\* 2 steps in total and leave a nonzero accumulator.
C8_ExampleTwoSteps ==
    clockLog.deltas = SpecExample => (clockLog.total = 2 /\ accumulator # FZero)

\* C8 as amended: they invoke exactly 3 steps in total and leave the
\* accumulator at zero.
C8_ExampleThreeSteps ==
    clockLog.deltas = SpecExample => (clockLog.total = 3 /\ accumulator = FZero)

C8_Witness == clockLog.deltas = SpecExample /\ clockLog.returned = 1

\* C9: a single call of advance invokes the callback at most maxSubsteps
\* times, for every deltaTime and every accumulator left by earlier calls.
C9_SubstepClamp ==
    /\ Len(clockLog.calls) <= MaxSubsteps
    /\ clockLog.returned <= MaxSubsteps

\* a call that found a nonzero accumulator, was clamped and took maxSubsteps steps
C9_Witness ==
    /\ Len(clockLog.deltas) >= 2
    /\ clockLog.deltas[Len(clockLog.deltas)] = D0_256
    /\ clockLog.total < Len(clockLog.calls) + 1
    /\ clockLog.clamped
    /\ Len(clockLog.calls) = MaxSubsteps

(***************************************************************************)
(* Claims on the seed streams.                                             *)
(***************************************************************************)
AllHaveDrawn == \A n \in SubsystemNames : seedLog.captureAt[n] > 0

\* the values a restored stream has returned are the values the original
\* stream has returned after the capture point
ResumedAsOriginal(n) ==
    \A i \in 1..Len(seedLog.resumed[n]) :
        seedLog.resumed[n][i] = seedLog.drawn[n][seedLog.captureAt[n] + i]

\* C10: once every named stream has produced some values, getSeedStream()
\* followed by restoreFromStream() makes every named stream go on with the
\* values the original stream produces after the capture point.
C10_RestoreResumes ==
    (seedLog.restored /\ AllHaveDrawn) => \A n \in SubsystemNames : ResumedAsOriginal(n)

RECURSIVE SoloStreams(_, _, _)
\* the streams of a manager on which only getStream(subsystem).next() was
\* called, i times
SoloStreams(master, subsystem, i) ==
    IF i = 0 THEN NoStreams
    ELSE StreamNext(SoloStreams(master, subsystem, i - 1), master, subsystem)

\* the i-th value of the named stream when no other stream is ever used
SoloValue(master, subsystem, i) ==
    StreamValue(SoloStreams(master, subsystem, i - 1), master, subsystem)

\* C11: for a fixed master seed, the i-th value drawn from getStream(S) is
\* the same for every interleaving of draws from the other named streams and
\* every order of first access: it is the value S gives when used alone.
C11_StreamsIndependent ==
    \A n \in SubsystemNames :
        \A i \in 1..Len(seedLog.drawn[n]) :
            seedLog.drawn[n][i] = SoloValue(masterSeed, n, i)

C11_Witness ==
    /\ \A n \in SubsystemNames : Len(seedLog.drawn[n]) = MaxDraws
    /\ \A n, o \in SubsystemNames :
           n /= o => /\ seedLog.drawn[n][1] /= seedLog.drawn[o][1]
                     /\ seedLog.drawn[n][2] /= seedLog.drawn[o][2]
    /\ \A n \in SubsystemNames : seedLog.drawn[n][1] /= seedLog.drawn[n][2]

RECURSIVE NextStates(_, _)
\* the state of a generator after i calls of next()
NextStates(state, i) == IF i = 0 THEN state ELSE NextState(NextStates(state, i - 1))

\* the i-th value of the generator that fork(name) returns on a generator
\* just constructed like gen: with its initial seed and subsystem name
FreshForkValue(gen, name, i) ==
    NextValue(NextStates(
        ForkResult(SeededRandomOf(gen.initialSeed, gen.subsystem), name).child.state, i))

\* C12: fork(name) neither changes nor consumes the parent (its next()
\* values are those of a twin on which fork is never called), and the values
\* of the forked generator depend only on the parent's initial seed, the
\* parent's subsystem name and name, however many values the parent had
\* produced.
C12_ForkPure ==
    /\ randomLog.parent = randomLog.twin
    /\ \A k \in 1..Len(randomLog.children) :
           \A i \in 1..Len(randomLog.children[k].values) :
               randomLog.children[k].values[i] =
                   FreshForkValue(generators.parent, generators.children[k].subsystem, i)

C12_Witness ==
    /\ Len(randomLog.children) = 2
    /\ generators.children[1].subsystem = generators.children[2].subsystem
    /\ randomLog.children[1].at = 0
    /\ randomLog.children[2].at > 0
    /\ Len(randomLog.parent) > randomLog.children[2].at
    /\ Len(randomLog.children[1].values) = MaxDraws
    /\ Len(randomLog.children[2].values) = MaxDraws
    /\ randomLog.children[2].values[1] /= randomLog.children[2].values[2]
    /\ randomLog.children[2].values[1] /= randomLog.parent[1]

(***************************************************************************)
(* Claims on contact resolution.                                           *)
(***************************************************************************)
\* the relative velocity of the call's bodies along the contact normal
CallVelocityAlongNormal ==
    Vec3Dot(Vec3Sub(call.bodyB.velocity, call.bodyA.velocity), call.contact.normal)

\* C13: resolveContact called with two static bodies, or with two bodies
\* whose relative velocity along the contact normal is > 0, returns both
\* bodies' velocities and positions unchanged and impulse 0.
C13_ImpulseNonCreation ==
    (/\ call.name = "resolveContact"
     /\ \/ call.bodyA.isStatic /\ call.bodyB.isStatic
        \/ NumLess(NumZero(0), CallVelocityAlongNormal))
    => /\ call.result.bodyA.velocity = call.bodyA.velocity
       /\ call.result.bodyA.position = call.bodyA.position
       /\ call.result.bodyB.velocity = call.bodyB.velocity
       /\ call.result.bodyB.position = call.bodyB.position
       /\ call.result.impulse = NumZero(0)

\* a separating pair, one body static and the contact penetrating
C13_Witness ==
    /\ call.name = "resolveContact"
    /\ call.bodyA.isStatic /\ ~call.bodyB.isStatic
    /\ NumLess(NumZero(0), CallVelocityAlongNormal)
    /\ NumLess(NumLit(1, 100), call.contact.penetration)
    /\ call.result.impulse = NumZero(0)

(***************************************************************************)
(* Claims on the narrowphase tests.                                        *)
(***************************************************************************)
\* the centre distance of the spheres of the call
CallDistance == Vec3Length(Vec3Sub(call.centerB, call.centerA))

CallRadiusSum == NumAdd(call.radiusA, call.radiusB)

Vec3Eq(a, b) == NumEq(a.x, b.x) /\ NumEq(a.y, b.y) /\ NumEq(a.z, b.z)

\* the result of the call with the two spheres exchanged
MirroredResult ==
    SphereVsSphere(call.centerB, call.radiusB, call.centerA, call.radiusA)

\* two results of colliding spheres describe the same contact from both sides
SameContact(r, m) ==
    /\ NumEq(m.penetrationDepth, r.penetrationDepth)
    /\ Vec3Eq(m.contactNormal, Vec3Mul(r.contactNormal, NumInt(-1)))
    /\ Vec3Eq(m.contactPoint, r.contactPoint)

\* C15: sphereVsSphere(cA,rA,cB,rB) and sphereVsSphere(cB,rB,cA,rA) agree on
\* colliding and on penetrationDepth, return contact normals that are
\* negations of each other and the same contactPoint, also when the two
\* centres coincide.
C15_CollisionSymmetry ==
    call.name = "sphereVsSphere" =>
        /\ MirroredResult.colliding = call.result.colliding
        /\ call.result.colliding => SameContact(call.result, MirroredResult)

(***************************************************************************)
(* Claims on the simulation sessions.                                      *)
(***************************************************************************)
\* the ids of the registry of a session, in insertion order
EntityOrder(s) == [i \in 1..Len(sessions[s].entities) |-> sessions[s].entities[i].id]

\* getDeterministicHash() was equal in the two sessions after every tick that
\* both have made
HashesAgree ==
    \A n \in 1..Len(simLog.hashes[2]) : simLog.hashes[1][n] = simLog.hashes[2][n]

\* the hash of a session that has recorded no step hash
ZeroHash == [i \in 1..16 |-> "0"]

C2_OrderDoesNotLeak == (config.strictMode /\ EntityIds(1) = EntityIds(2)) => HashesAgree

\* a ray cast was made and reported a hit
RayCallHit == call.name \in {"raycastSphere", "raycastAabb"} /\ call.result.hit

\* 0 <= t <= maxDistance
InRange(t, maxDistance) == ~NumLess(t, NumZero(0)) /\ ~NumLess(maxDistance, t) /\ ~IsNaN(t)

\* C16: raycastSphere and raycastAabb report hit = true only with a distance t
\* such that 0 <= t <= maxDistance, also when the ray origin lies inside the
\* shape.
C16_RaycastWithinRange ==
    RayCallHit => InRange(call.result.distance, call.maxDistance)

\* a step() of session 1 is being made
Stepping == Len(simLog'.lists) = Len(simLog.lists) + 1

\* the action list of the step() being made
SteppingList == simLog'.lists[Len(simLog'.lists)]

\* the step() being made leaves session 1 as a step() with the list actions
\* would, and throws exactly when that one would
StepsLike(actions) ==
    \E r \in {StepResult(sessions[1], actions, config, integrators[1])} :
        /\ sessions'[1] = r.session
        /\ integrators'[1] = r.prevAcceleration
        /\ simLog'.thrown[1][Len(simLog'.thrown[1])] = r.thrown

\* the actions of the list whose entityId is in the registry of session 1
Registered(actions) == SelectSeq(actions, LAMBDA a : a.entityId \in EntityIds(1))

\* C17: an action whose entityId is not in the registry (never added, or
\* removed earlier) is a no-op: a step() leaves the runtime, its log and
\* whether it throws as the same step() without these actions would, so no
\* entity's velocity, status or metadata changes because of them and the
\* other actions and the rest of the tick are processed normally.
C17_UnknownEntityNoOp ==
    [][Stepping =>
         /\ StepsLike(Registered(SteppingList))
         /\ simLog'.debug = simLog.debug
                \o DebugMessages(sessions[1].entities, Registered(SteppingList),
                                 config.logger)]_vars

\* a step() was given an action on an entity that is not registered and an
\* action on one that is, which took effect
C17_Witness ==
    /\ simLog.lists /= << >>
    /\ \E a \in Range(simLog.lists[Len(simLog.lists)]) :
           a.type = "stop" /\ a.entityId = 2 /\ a.entityId \notin EntityIds(1)
    /\ \E a \in Range(simLog.lists[Len(simLog.lists)]) :
           a.type = "set_velocity" /\ a.entityId = 1
    /\ \E i \in 1..Len(sessions[1].entities) :
           sessions[1].entities[i].id = 1 /\ sessions[1].entities[i].status = "moving"

\* the actions of the list that processActions has a case for
Handled(actions) == SelectSeq(actions, LAMBDA a : a.type \notin UnhandledTypes)

\* C18: actions of type follow_path, set_acceleration, apply_force,
\* apply_torque or custom never make step() throw and leave the target's
\* velocity, status and metadata as they were: a step() leaves the runtime,
\* and throws or not, as the same step() without these actions would, with
\* and without a logger.
C18_UnhandledActionsNoOp == [][Stepping => StepsLike(Handled(SteppingList))]_vars

\* the second step() of a runtime with a logger was given a custom action
\* and a follow_path action on entity 1, which was moving and still is, and
\* the logger was called
C18_Witness ==
    /\ config.logger
    /\ Len(simLog.lists) = 2
    /\ \E a \in Range(simLog.lists[2]) : a.type = "custom" /\ a.entityId = 1
    /\ \E a \in Range(simLog.debug) : a.type = "follow_path" /\ a.entityId = 1
    /\ \E i \in 1..Len(sessions[1].entities) :
           sessions[1].entities[i].id = 1 /\ sessions[1].entities[i].status = "moving"

\* C19: in strict mode a step() at whose stability check an entity that is
\* not disabled holds NaN in its velocity or position throws
\* DivergenceError; with strict mode off no step() throws it.
C19_NaNIsFatal ==
    [][Stepping =>
         /\ (config.strictMode /\ HasNaN(sessions'[1].entities))
                => simLog'.thrown[1][Len(simLog'.thrown[1])]
         /\ ~config.strictMode => ~simLog'.thrown[1][Len(simLog'.thrown[1])]]_vars

\* a step() in strict mode threw with two entities registered, the drone
\* within every threshold and the robot with a NaN velocity
C19_Witness ==
    /\ config.strictMode
    /\ simLog.thrown[1] /= << >>
    /\ simLog.thrown[1][Len(simLog.thrown[1])]
    /\ Len(sessions[1].entities) = 2
    /\ \E i \in 1..2 :
           /\ sessions[1].entities[i].id = 1
           /\ ~Vec3IsNaN(sessions[1].entities[i].velocity)
           /\ ~Vec3IsNaN(sessions[1].entities[i].position)
    /\ \E i \in 1..2 :
           /\ sessions[1].entities[i].id = 2
           /\ sessions[1].entities[i].status /= "disabled"
           /\ Vec3IsNaN(sessions[1].entities[i].velocity)

\* C20: getDeterministicHash() returns a string of exactly 16 lowercase
\* hexadecimal characters, for every sequence of recorded step hashes.
C20_HashIsSixteenHex ==
    call.name = "computeFinalHash" =>
        /\ Len(call.result) = 16
        /\ \A i \in 1..Len(call.result) : call.result[i] \in Range(HexChars)

\* the hash of two steps whose fold wraps around to -32
C20_Witness ==
    /\ call.name = "computeFinalHash"
    /\ call.stepHashes = <<<<Half \div 2 - 1, Half - 1>>, <<Half \div 2 - 1, Half - 1>>>>
    /\ call.result = <<"0", "0", "0", "0", "0", "0", "0", "0",
                       "0", "0", "0", "0", "0", "0", "2", "0">>

\* the entity of the Map entities whose id is id, as position, velocity, status
Observed(entities, id) ==
    {<<e.transform.position, e.velocity, e.status>> : e \in {x \in Range(entities) : x.id = id}}

\* the ids of the Map entities, in its order
MapIds(entities) == [i \in 1..Len(entities) |-> entities[i].id]

\* C21: deserializeState(serializeState(s)) has the same entity ids as s with
\* equal position, velocity and status for each, the same step and hash as s,
\* and the fixed default world bounds whatever bounds s had.
C21_RoundTrip ==
    call.name = "deserializeState" =>
        /\ MapIds(call.result.entities) = MapIds(call.state.entities)
        /\ \A id \in Ids :
               Observed(call.result.entities, id) = Observed(call.state.entities, id)
        /\ call.result.step = call.state.step
        /\ call.result.hash = call.state.hash
        /\ call.result.worldState.bounds = DefaultBounds

\* the round trip of a snapshot of step 7 with three entities, one moving and
\* one disabled, and world bounds other than the default
C21_Witness ==
    /\ call.name = "deserializeState"
    /\ Len(call.state.entities) = 3
    /\ call.state.step = 7
    /\ call.state.worldState.bounds /= DefaultBounds
    /\ call.state.entities[1].status = "disabled"
    /\ call.result.entities[2].status = "moving"

\* session 1 was reset and the two sessions were since given the same
\* descriptors in the same order and have made the same number of ticks
SameSinceReset ==
    /\ simLog.resets > 0
    /\ EntityOrder(1) = EntityOrder(2)
    /\ Len(simLog.hashes[1]) = Len(simLog.hashes[2])

\* C22: after reset(), adding the same entity descriptors and running the same
\* action stream yields, tick by tick, the same step counter, entity
\* positions and velocities and getDeterministicHash() as a freshly
\* constructed SimulationRuntime with the same configuration, for every
\* integrator.
C22_ResetIsClean ==
    SameSinceReset =>
        /\ sessions[1].currentStep = sessions[2].currentStep
        /\ sessions[1].entities = sessions[2].entities
        /\ simLog.hashes[1] = simLog.hashes[2]

(***************************************************************************)
(* C23.  Each processContacts call fires once per pair transition: for     *)
(* every pair of entities and every callback registered for one of the     *)
(* two, the call invokes the callback for that pair exactly once as        *)
(* onEnter if the pair occurs in the events and was not active, exactly    *)
(* once as onStay if it occurs and was active, exactly once as onExit if   *)
(* it does not occur and was active, and not at all otherwise, whatever    *)
(* the number of the pair's events and the order of the two ids in them.   *)
(***************************************************************************)
SamePair(entityA, entityB, pair) == {entityA, entityB} = pair

Occurs(pair) ==
    \E i \in 1..Len(registryLog.events) :
        SamePair(registryLog.events[i].entityA, registryLog.events[i].entityB, pair)

WasActive(pair) ==
    \E i \in 1..Len(registryLog.before) :
        SamePair(registryLog.before[i][1], registryLog.before[i][2], pair)

TimesCalled(kind, owner, index, pair) ==
    Cardinality({i \in 1..Len(registryLog.fired) :
        /\ registryLog.fired[i].kind = kind
        /\ registryLog.fired[i].owner = owner
        /\ registryLog.fired[i].index = index
        /\ SamePair(registryLog.fired[i].entityA, registryLog.fired[i].entityB, pair)})

Transition(pair) ==
    IF Occurs(pair) THEN (IF WasActive(pair) THEN "onStay" ELSE "onEnter")
    ELSE (IF WasActive(pair) THEN "onExit" ELSE "none")

EntityPairs == {pair \in SUBSET Ids : Cardinality(pair) = 2}

C23_OncePerTransition ==
    registryLog.calls > 0 =>
        \A pair \in EntityPairs : \A owner \in pair : \A kind \in CallbackKinds :
            \A index \in 1..callbacks[kind][owner] :
                TimesCalled(kind, owner, index, pair) = (IF Transition(pair) = kind THEN 1 ELSE 0)

(***************************************************************************)
(* C24.  ContactManager keeps one manifold per unordered entity pair:      *)
(* getManifolds() has exactly one manifold for every unordered pair that   *)
(* addContact was called for since the last clear(), in either order of    *)
(* the two ids, and no other; the manifold has entityA < entityB and its   *)
(* contacts are the contact points added for the pair, in the order of     *)
(* the calls; after clear() there is no manifold.                          *)
(***************************************************************************)
AddedFor(pair) ==
    SelectSeq(managerLog.added, LAMBDA c : SamePair(c.entityA, c.entityB, pair))

ContactsOf(added) == [i \in 1..Len(added) |-> added[i].contact]

AddedPairs == {{managerLog.added[i].entityA, managerLog.added[i].entityB} : i \in 1..Len(managerLog.added)}

ManifoldsFor(pair) ==
    {i \in 1..Len(GetManifolds) : SamePair(GetManifolds[i].entityA, GetManifolds[i].entityB, pair)}

C24_OneManifoldPerPair ==
    /\ Len(GetManifolds) = Cardinality(AddedPairs)
    /\ \A i \in 1..Len(GetManifolds) : GetManifolds[i].entityA < GetManifolds[i].entityB
    /\ \A pair \in AddedPairs :
        /\ Cardinality(ManifoldsFor(pair)) = 1
        /\ \A i \in ManifoldsFor(pair) : GetManifolds[i].contacts = ContactsOf(AddedFor(pair))
    /\ managerLog.cleared => GetManifolds = << >>

C24_Witness ==
    /\ Len(GetManifolds) = 2
    /\ \E i, j \in 1..Len(managerLog.added) :
        /\ i < j
        /\ managerLog.added[i].entityA = managerLog.added[j].entityB
        /\ managerLog.added[i].entityB = managerLog.added[j].entityA

(***************************************************************************)
(* C25.  A configuration whose timestep is <= 0 or > 1.0, or whose         *)
(* maxSteps is < 1 or > 10M, is rejected before any tick: simulate()       *)
(* throws ValidationError for it, and no SimulationRuntime has completed   *)
(* a step() under it.                                                      *)
(***************************************************************************)
InvalidConfig(cfg) == ValidateSimulationConfig(cfg) /= << >>

\* simulate() rejects every such configuration
ClientRejects ==
    (call.name = "simulate" /\ InvalidConfig(call.config)) => call.thrown = "ValidationError"

C25_InvalidConfigNeverTicks ==
    /\ ClientRejects
    /\ InvalidConfig(config) => \A s \in Sessions : sessions[s].currentStep = 0

(***************************************************************************)
(* C26.  removeEntity is immediate: from the return of a removeEntity(id)  *)
(* that returned true, through every later tick and action, getEntity(id)  *)
(* is undefined, getEntityCount() is one less than before the call, the    *)
(* snapshot has no entity id, the entities integrated and the recorded     *)
(* step hash are those of the registry without it; a removeEntity(id) of   *)
(* an id that is not registered returns false and changes nothing.         *)
(***************************************************************************)
Without(entities, id) == SelectSeq(entities, LAMBDA e : e.id /= id)

ActionsNotOn(actions, id) == SelectSeq(actions, LAMBDA a : a.entityId /= id)

LastStepHash(session) == session.stepHashes[Len(session.stepHashes)]

AbsentAfter(id) ==
    /\ GetEntity(sessions'[1], id) = << >>
    /\ GetEntityCount(sessions'[1]) = call'.count - 1
    /\ \A i \in 1..Len(GetState(sessions'[1]).entities) : GetState(sessions'[1]).entities[i].id /= id
    /\ Stepping =>
        /\ StepsLike(ActionsNotOn(SteppingList, id))
        /\ (config.strictMode /\ ~simLog'.thrown[1][Len(simLog'.thrown[1])]) =>
              LastStepHash(sessions'[1])
                  = ComputeStepHash(sessions'[1].currentStep, Without(sessions'[1].entities, id))

C26_RemoveIsImmediate ==
    [][call'.name = "removeEntity" =>
          /\ call'.result => AbsentAfter(call'.id)
          /\ (~call'.result /\ call' /= call) => UNCHANGED simVars]_vars

C26_Witness ==
    /\ call.name = "removeEntity"
    /\ call.result
    /\ Len(simLog.lists) > call.ticks
    /\ call.ticks > 0
    /\ sessions[1].entities /= << >>
    /\ \E i \in 1..Len(simLog.lists[Len(simLog.lists)]) :
           simLog.lists[Len(simLog.lists)][i].entityId = call.id

(***************************************************************************)
(* C27.  With the verlet integrator every body keeps its own previous      *)
(* acceleration: after the same number of ticks with the same action       *)
(* lists, an entity has the same position and velocity in a session that   *)
(* integrates other entities as well as in a session that does not.        *)
(***************************************************************************)
SameTrajectory(id) ==
    \A i \in 1..Len(sessions[1].entities), j \in 1..Len(sessions[2].entities) :
        (sessions[1].entities[i].id = id /\ sessions[2].entities[j].id = id) =>
            /\ sessions[1].entities[i].position = sessions[2].entities[j].position
            /\ sessions[1].entities[i].velocity = sessions[2].entities[j].velocity

SameTicks == Len(simLog.hashes[1]) = Len(simLog.hashes[2])

C27_OwnAccelerationSample ==
    (config.integrator = "verlet" /\ SameTicks) => \A id \in EntityIds(2) : SameTrajectory(id)

(***************************************************************************)
(* C28.  The index of the sweep-and-prune broadphase is consistent in      *)
(* every reachable state: every id of entityMap is mapped to the position  *)
(* of its own entry in entries, and the keys of entityMap are exactly the  *)
(* ids of the entries.                                                     *)
(***************************************************************************)
C28_IndexConsistent ==
    /\ \A id \in DOMAIN entityMap :
          /\ entityMap[id] < Len(entries)
          /\ entries[entityMap[id] + 1].id = id
    /\ DOMAIN entityMap = {entries[i].id : i \in 1..Len(entries)}

(***************************************************************************)
(* C29.  Every step() that returns processes the actions, integrates the   *)
(* result, checks stability (strict mode), then adds 1 to the step counter *)
(* and the timestep to the simulation time, and records the step hash of   *)
(* the new counter and the integrated entities; the snapshot it returns    *)
(* has the new counter as its step; and the counter is always the number   *)
(* of step() calls that returned since construction or the last reset().   *)
(***************************************************************************)
Returned(thrown) == Cardinality({i \in 1..Len(thrown) : ~thrown[i]})

SteppingThrew == simLog'.thrown[1][Len(simLog'.thrown[1])]

TickOf(moved) ==
    /\ sessions'[1].entities = moved.entities
    /\ SteppingThrew = (config.strictMode /\ ~ValidateStability(moved.entities))
    /\ ~SteppingThrew =>
          /\ sessions'[1].currentStep = sessions[1].currentStep + 1
          /\ sessions'[1].simulationTime = NumAdd(sessions[1].simulationTime, config.timestep)
          /\ GetState(sessions'[1]).step = sessions'[1].currentStep
          /\ config.strictMode =>
                sessions'[1].stepHashes
                    = Append(sessions[1].stepHashes,
                             ComputeStepHash(sessions[1].currentStep + 1, moved.entities))

C29_TickOrder ==
    [][/\ Stepping =>
            TickOf(PhysicsStep(ProcessActions(sessions[1].entities, SteppingList, 1), 1,
                               config.integrator, config.timestep, integrators[1]))
       /\ sessions'[1].currentStep = Returned(simLog'.thrown[1])]_vars

C29_Witness ==
    /\ simLog.resets > 0
    /\ simLog.thrown[1] = <<FALSE, TRUE>>
    /\ sessions[1].currentStep = 1
    /\ simLog.lists[1] /= << >>

(***************************************************************************)
(* C30.  In strict mode the recorded step hashes are one per completed     *)
(* tick since construction or the last reset(), in tick order: a tick that *)
(* returns appends the hash of its step, and nothing else changes the list *)
(* but reset(), which empties it.  With strict mode off the list stays     *)
(* empty and getDeterministicHash() is the all-zero digest.                *)
(***************************************************************************)
Resetting == simLog'.resets > simLog.resets

RecordedInOrder ==
    IF Stepping /\ ~SteppingThrew
    THEN sessions'[1].stepHashes
             = Append(sessions[1].stepHashes,
                      ComputeStepHash(sessions'[1].currentStep, sessions'[1].entities))
    ELSE IF Resetting THEN sessions'[1].stepHashes = << >>
    ELSE sessions'[1].stepHashes = sessions[1].stepHashes

C30_OneHashPerTick ==
    [][IF config.strictMode
       THEN /\ RecordedInOrder
            /\ Len(sessions'[1].stepHashes) = Returned(simLog'.thrown[1])
       ELSE /\ sessions'[1].stepHashes = << >>
            /\ ComputeFinalHash(sessions'[1].stepHashes) = ZeroHash
            /\ \A n \in 1..Len(simLog'.hashes[1]) : simLog'.hashes[1][n] = ZeroHash]_vars

C30_Witness ==
    /\ config.strictMode
    /\ simLog.resets > 0
    /\ Len(sessions[1].stepHashes) = MaxTicks
    /\ sessions[1].stepHashes[1] /= sessions[1].stepHashes[MaxTicks]
    /\ sessions[1].entities /= << >>

(***************************************************************************)
(* C31.  When advance returns on a runtime that was only given             *)
(* non-negative deltas, 0 <= accumulator < fixedTimestep, the value        *)
(* returned is the number of callback invocations of the call,             *)
(* getCurrentStep() has grown by it, and the callback was given            *)
(* dt = fixedTimestep and the consecutive step indices that start at the   *)
(* step before the call.                                                   *)
(***************************************************************************)
Advancing == Len(clockLog'.deltas) = Len(clockLog.deltas) + 1

C31_AdvancePostcondition ==
    [][(Advancing /\ AllNonNegative(clockLog'.deltas)) =>
          /\ ~FLess(accumulator', FZero)
          /\ FLess(accumulator', FixedTimestep)
          /\ clockLog'.returned = Len(clockLog'.calls)
          /\ currentStep' = currentStep + clockLog'.returned
          /\ \A i \in 1..Len(clockLog'.calls) :
                clockLog'.calls[i] = <<FixedTimestep, currentStep + i - 1>>]_vars

C31_Witness ==
    /\ Len(clockLog.deltas) >= 2
    /\ AllNonNegative(clockLog.deltas)
    /\ clockLog.returned >= 2
    /\ clockLog.total > clockLog.returned
    /\ accumulator # FZero

(***************************************************************************)
(* C32.  The contact lifecycle of a pair is well-formed: for every pair of *)
(* entities, a listener registered for onEnter, onStay and onExit of one   *)
(* of the two is called, over the successive processContacts calls, in the *)
(* pattern (enter, stay*, exit)*: no onStay or onExit without an onEnter   *)
(* since the last onExit, and no second onEnter without an onExit in       *)
(* between, in whichever order the events name the two entities.           *)
(***************************************************************************)
KindsFired(owner, pair) ==
    SelectSeq(registryLog.history,
              LAMBDA c : c.owner = owner /\ c.index = 1 /\ SamePair(c.entityA, c.entityB, pair))

RECURSIVE Lifecycle(_, _, _)
\* whether the pair is in contact after the calls, or "broken" when a call
\* does not fit the pattern
Lifecycle(calls, i, inContact) ==
    IF i > Len(calls) THEN (IF inContact THEN "in" ELSE "out")
    ELSE IF calls[i].kind = "onEnter"
         THEN (IF inContact THEN "broken" ELSE Lifecycle(calls, i + 1, TRUE))
         ELSE IF ~inContact THEN "broken"
         ELSE Lifecycle(calls, i + 1, calls[i].kind = "onStay")

ListensToAll(owner) == \A kind \in CallbackKinds : callbacks[kind][owner] > 0

C32_LifecycleWellFormed ==
    \A pair \in EntityPairs : \A owner \in pair :
        ListensToAll(owner) => Lifecycle(KindsFired(owner, pair), 1, FALSE) /= "broken"

(***************************************************************************)
(* C33.  A step() that throws DivergenceError has no partial effect: the   *)
(* step counter, the simulation time, the recorded step hashes and every   *)
(* entity's position, velocity and status are as before the call.          *)
(***************************************************************************)
SameEntityStates(before, after) ==
    /\ Len(before) = Len(after)
    /\ \A i \in 1..Len(before) :
          /\ after[i].id = before[i].id
          /\ after[i].position = before[i].position
          /\ after[i].velocity = before[i].velocity
          /\ after[i].status = before[i].status

C33_FailedTickHasNoEffect ==
    [][(Stepping /\ SteppingThrew) =>
          /\ sessions'[1].currentStep = sessions[1].currentStep
          /\ sessions'[1].simulationTime = sessions[1].simulationTime
          /\ sessions'[1].stepHashes = sessions[1].stepHashes
          /\ SameEntityStates(sessions[1].entities, sessions'[1].entities)]_vars

\* ---------------------------------------------------------------------------
\* C34: ticks take effect in call order: of two step() calls made on one
\* session, the one called first has its actions applied and its tick
\* completed first, and the returned snapshots carry step numbers in call
\* order, also when the session was not initialized at the first call.
C34_TicksInCallOrder ==
    \A k, l \in 1..Len(asyncLog.returned) :
        (asyncLog.returned[k].call < asyncLog.returned[l].call) =>
            /\ k < l
            /\ (~asyncLog.returned[k].thrown /\ ~asyncLog.returned[l].thrown) =>
                   asyncLog.returned[k].step < asyncLog.returned[l].step

\* ---------------------------------------------------------------------------
\* C35: every call of DeterministicRuntime.advance terminates, for every
\* deltaTime and for every fixedTimestep and maxSubsteps the constructor
\* accepts: a call that has been made eventually returns.
C35_AdvanceTerminates ==
    \A n \in 1..MaxAdvances : (loop.advances = n) ~> (loop.returned = n)

\* ---------------------------------------------------------------------------
\* C36: a body flagged isStatic is left untouched by contact resolution:
\* resolveContact returns, for every body with isStatic = true, the position
\* and the velocity it was given, whatever its inverseMass and whatever the
\* other body.
Untouched(body, result) ==
    /\ Vec3Eq(result.position, body.position)
    /\ Vec3Eq(result.velocity, body.velocity)

C36_StaticUntouched ==
    (call.name = "resolveContact") =>
        /\ call.bodyA.isStatic => Untouched(call.bodyA, call.result.bodyA)
        /\ call.bodyB.isStatic => Untouched(call.bodyB, call.result.bodyB)

\* ---------------------------------------------------------------------------
\* C37: the integration pass of step() leaves position, velocity and status
\* unchanged for every entity whose status is 'disabled' or whose type is
\* 'obstacle', and updates every other entity exactly once per tick.
\* after is before, integrated once (with either acceleration sample the
\* integrator can hold)
IntegratedOnce(before, after) ==
    \E prevAcceleration \in IF config.integrator = "verlet"
                            THEN {Vec3Zero, Gravity} ELSE {Vec3Zero} :
        after = PhysicsEntity(before, config.integrator, config.timestep,
                              prevAcceleration).entity

PassedOver(before, after) ==
    /\ after.position = before.position
    /\ after.velocity = before.velocity
    /\ after.status = before.status

\* the pass took the entities from acted to passed
IntegrationPass(acted, passed) ==
    /\ Len(passed) = Len(acted)
    /\ \A i \in 1..Len(acted) :
          /\ passed[i].id = acted[i].id
          /\ IF acted[i].status = "disabled" \/ acted[i].type = "obstacle"
             THEN PassedOver(acted[i], passed[i])
             ELSE IntegratedOnce(acted[i], passed[i])

C37_IntegrationPass ==
    [][Stepping =>
          IntegrationPass(ProcessActions(sessions[1].entities, SteppingList, 1),
                          sessions'[1].entities)]_vars

\* a tick has passed over an obstacle and over a disabled entity, and has
\* moved a third entity
C37_Witness ==
    /\ simLog.lists /= << >>
    /\ \E i, j, k \in 1..Len(sessions[1].entities) :
          /\ sessions[1].entities[i].type = "obstacle"
          /\ sessions[1].entities[i].position = ObstacleDescriptor.position
          /\ sessions[1].entities[j].status = "disabled"
          /\ sessions[1].entities[j].type /= "obstacle"
          /\ k /= i /\ k /= j
          /\ \E d \in Descriptors :
                /\ d.id = sessions[1].entities[k].id
                /\ d.position /= sessions[1].entities[k].position

\* ---------------------------------------------------------------------------
\* C38: after every step(), each integrated entity has a speed of at most its
\* maxVelocity (100 when unset), also when set_velocity or move_to of the same
\* tick asked for more; when the integrator's velocity times 0.99 is within
\* the cap, that damped value is the one stored.
MaxVel(entity) == OrElse(entity.maxVelocity, NumInt(100))

AtMost(a, b) == NumLess(a, b) \/ NumEq(a, b)

RECURSIVE PrevSample(_, _)
\* the acceleration sample the verlet integrator holds when the pass reaches
\* the i-th entity
PrevSample(acted, i) ==
    IF i = 1 THEN integrators[1]
    ELSE IF acted[i - 1].status = "disabled" \/ acted[i - 1].type = "obstacle"
    THEN PrevSample(acted, i - 1)
    ELSE Acceleration(acted[i - 1], Gravity)

\* the integrator's velocity for the entity, times 0.99
Damped(entity, prevAcceleration) ==
    Vec3Mul(Integrate(config.integrator,
                      [position     |-> entity.position,
                       velocity     |-> entity.velocity,
                       acceleration |-> Acceleration(entity, Gravity)],
                      config.timestep, prevAcceleration).result.velocity,
            NumLit(99, 100))

SpeedCapped(acted, passed) ==
    \A i \in 1..Len(acted) :
        ~(acted[i].status = "disabled" \/ acted[i].type = "obstacle") =>
            AtMost(Vec3Length(passed[i].velocity), MaxVel(acted[i]))

DampedKept(acted, passed) ==
    \A i \in 1..Len(acted) :
        (/\ ~(acted[i].status = "disabled" \/ acted[i].type = "obstacle")
         /\ AtMost(Vec3Length(Damped(acted[i], PrevSample(acted, i))), MaxVel(acted[i]))) =>
            passed[i].velocity = Damped(acted[i], PrevSample(acted, i))

C38_SpeedCapped ==
    [][Stepping =>
          /\ SpeedCapped(ProcessActions(sessions[1].entities, SteppingList, 1),
                         sessions'[1].entities)
          /\ DampedKept(ProcessActions(sessions[1].entities, SteppingList, 1),
                        sessions'[1].entities)]_vars

\* ---------------------------------------------------------------------------
\* C39: for two approaching bodies (relative normal velocity <= 0) that are
\* not both static, with invMassA + invMassB > 0 and a unit normal n,
\* resolveContact returns j = -(1+e) * ((vB - vA) . n) / (invMassA + invMassB)
\* with e = min(restitutionA, restitutionB), vA' = vA - j*n*invMassA and
\* vB' = vB + j*n*invMassB, so that the relative normal velocity after
\* resolution is -e times the one before.
CallRestitution == NumMin(call.bodyA.restitution, call.bodyB.restitution)

CallInverseMassSum == NumAdd(call.bodyA.inverseMass, call.bodyB.inverseMass)

\* j as the claim writes it
CallImpulse ==
    NumDiv(NumMul(NumNeg(NumAdd(NumInt(1), CallRestitution)), CallVelocityAlongNormal),
           CallInverseMassSum)

\* the relative normal velocity of the returned bodies
CallVelocityAlongNormalAfter ==
    Vec3Dot(Vec3Sub(call.result.bodyB.velocity, call.result.bodyA.velocity),
            call.contact.normal)

\* the call is one the claim is about
Approaching ==
    /\ call.name = "resolveContact"
    /\ ~(call.bodyA.isStatic /\ call.bodyB.isStatic)
    /\ AtMost(CallVelocityAlongNormal, NumZero(0))
    /\ NumLess(NumZero(0), CallInverseMassSum)
    /\ NumEq(Vec3Length(call.contact.normal), NumInt(1))

ImpulseAsClaimed ==
    /\ call.result.impulse = CallImpulse
    /\ call.result.bodyA.velocity
          = Vec3Sub(call.bodyA.velocity,
                    Vec3Mul(Vec3Mul(call.contact.normal, CallImpulse), call.bodyA.inverseMass))
    /\ call.result.bodyB.velocity
          = Vec3Add(call.bodyB.velocity,
                    Vec3Mul(Vec3Mul(call.contact.normal, CallImpulse), call.bodyB.inverseMass))

\* the original statement: the velocity after is exactly -e times the one before
C39_ImpulseFormula ==
    Approaching =>
        /\ ImpulseAsClaimed
        /\ NumEq(CallVelocityAlongNormalAfter,
                 NumMul(NumNeg(CallRestitution), CallVelocityAlongNormal))

\* C39 as amended: the three formulas hold as written, and the velocity after
\* is -e times the one before up to the rounding of the double operations
\* (within 1e-9 on the calls of the model)
C39_ImpulseFormulaRounded ==
    Approaching =>
        /\ ImpulseAsClaimed
        /\ NumLess(NumAbs(NumSub(CallVelocityAlongNormalAfter,
                                 NumMul(NumNeg(CallRestitution), CallVelocityAlongNormal))),
                   NumLit(1, 1000000000))

\* two moving bodies approach and get an impulse, and the velocity after is
\* not exactly -e times the one before
C39_Witness ==
    /\ Approaching
    /\ ~call.bodyA.isStatic /\ ~call.bodyB.isStatic
    /\ NumLess(NumZero(0), call.result.impulse)
    /\ ~NumEq(CallVelocityAlongNormalAfter,
              NumMul(NumNeg(CallRestitution), CallVelocityAlongNormal))

\* ---------------------------------------------------------------------------
\* C40: snapshots and descriptors are not aliased to live state: a
\* StateSnapshot returned by step() or getState(), and an EntityDescriptor
\* passed to addEntity, keep the positions, velocities and status they held,
\* whatever step(), action or removeEntity calls follow.
KeepsHeld(state) ==
    /\ heap.objects[state.position] = state.held.position
    /\ heap.objects[state.velocity] = state.held.velocity
    /\ state.status = state.held.status

C40_NotAliased ==
    /\ \A d \in 1..Len(heap.descriptors) :
          heap.objects[heap.descriptors[d].position] = heap.descriptors[d].held
    /\ \A s \in 1..Len(heap.snapshots) :
          \A i \in 1..Len(heap.snapshots[s]) : KeepsHeld(heap.snapshots[s][i])

\* the i-th entity of session 1 has moved on from what the state held
MovedOn(state, i) ==
    /\ sessions[1].entities[i].id = state.id
    /\ sessions[1].entities[i].position /= state.held.position
    /\ sessions[1].entities[i].velocity /= state.held.velocity
    /\ sessions[1].entities[i].status /= state.held.status

\* an entity has a position, a velocity and a status other than those of its
\* descriptor and of a snapshot taken before a tick, and another entity of
\* that snapshot has been removed
C40_Witness ==
    \E s \in 1..Len(heap.snapshots), i \in 1..Len(sessions[1].entities) :
        /\ \E k \in 1..Len(heap.snapshots[s]) : MovedOn(heap.snapshots[s][k], i)
        /\ \E k \in 1..Len(heap.snapshots[s]) :
              \A j \in 1..Len(sessions[1].entities) :
                  sessions[1].entities[j].id /= heap.snapshots[s][k].id
        /\ \E d \in 1..Len(heap.descriptors) :
              /\ heap.descriptors[d].id = sessions[1].entities[i].id
              /\ heap.objects[heap.refs[i].position] /= heap.descriptors[d].held

====
